---- MODULE Spec2Model ----
(***************************************************************************)
(* Generation engine of the layered-trait collection generator:            *)
(* weighted sampling under rules, the uniqueness tracker, the resumable    *)
(* checkpoint files, the orchestration loop and the layer cache.           *)
(*                                                                         *)
(* Python values are represented as follows.  A str is a sequence of       *)
(* one-character TLA+ strings ("Body" is <<"B","o","d","y">>), so that     *)
(* iterating a str, joining and splitting can be computed.  A tuple is a   *)
(* sequence.  A JSON array read back from a file is a Python list, written *)
(* [ty |-> "list", v |-> <<...>>], which tuple(x) turns into x.v.  A dict  *)
(* is a function; an OrderedDict is the sequence of its (key, value) items *)
(* in insertion order.  An absent file or None is the empty sequence and a *)
(* present one the one-element sequence of its content.                    *)
(***************************************************************************)
EXTENDS Integers, Sequences, FiniteSets, TLC

VARIABLES cfg, gen, fs, runs, gen2, fs2, cache, disk, breaker, probe

vars == <<cfg, gen, fs, runs, gen2, fs2, cache, disk, breaker, probe>>

(***************************************************************************)
(* Bounds of the model.                                                    *)
(***************************************************************************)
NumNfts == 3
NumSeeds == 11
MaxRuns == 2
MAX_ATTEMPTS == 3
MAX_TRAIT_ATTEMPTS == 2

None == <<>>
Some(x) == <<x>>
IsNone(x) == Len(x) = 0

(***************************************************************************)
(* Python strings.                                                         *)
(***************************************************************************)
Alphabet == <<"*", ":", "B", "E", "F", "H", "R", "a", "b", "d", "e", "f", "g",
              "h", "k", "o", "r", "w", "x", "y", "|">>

Ord(c) == CHOOSE i \in 1..Len(Alphabet) : Alphabet[i] = c

RECURSIVE StrLess(_, _)
StrLess(a, b) ==
    IF Len(a) = 0 THEN Len(b) > 0
    ELSE IF Len(b) = 0 THEN FALSE
    ELSE IF a[1] = b[1] THEN StrLess(Tail(a), Tail(b))
    ELSE Ord(a[1]) < Ord(b[1])

\* Order of tuples of strings, as Python compares tuples.
RECURSIVE TupleLess(_, _)
TupleLess(p, q) ==
    IF Len(p) = 0 THEN Len(q) > 0
    ELSE IF Len(q) = 0 THEN FALSE
    ELSE IF p[1] = q[1] THEN TupleLess(Tail(p), Tail(q))
    ELSE StrLess(p[1], q[1])

\* sorted(S) for a collection S of distinct tuples of strings: the least
\* element m, then the rest.
RECURSIVE SortedTuples(_)
SortedTuplesFrom(S, m) == <<m>> \o SortedTuples(S \ {m})

SortedTuples(S) ==
    IF S = {} THEN <<>>
    ELSE SortedTuplesFrom(S, CHOOSE x \in S : \A y \in S \ {x} : TupleLess(x, y))

Range(s) == {s[i] : i \in 1..Len(s)}

RECURSIVE Join(_, _)
Join(parts, sep) ==
    IF Len(parts) = 0 THEN <<>>
    ELSE IF Len(parts) = 1 THEN parts[1]
    ELSE parts[1] \o sep \o Join(Tail(parts), sep)

StartsWith(s, p) == Len(s) >= Len(p) /\ SubSeq(s, 1, Len(p)) = p

\* s.split(sep): cur is the part being read.
RECURSIVE SplitFrom(_, _, _)
SplitFrom(s, sep, cur) ==
    IF Len(s) = 0 THEN <<cur>>
    ELSE IF StartsWith(s, sep)
         THEN <<cur>> \o SplitFrom(SubSeq(s, Len(sep) + 1, Len(s)), sep, <<>>)
         ELSE SplitFrom(Tail(s), sep, Append(cur, s[1]))

Split(s, sep) == SplitFrom(s, sep, <<>>)

\* tuple(s) for a str s: the tuple of its one-character strings.
TupleOfStr(s) == [i \in 1..Len(s) |-> <<s[i]>>]

\* x in s for strs (substring test).
IsSubstring(x, s) == \E i \in 0..(Len(s) - Len(x)) : SubSeq(s, i + 1, i + Len(x)) = x


(***************************************************************************)
(* The trait catalog and the rules (the loaded configuration).             *)
(***************************************************************************)
TBg == <<"B", "g">>
TBody == <<"B", "o", "d", "y">>
TEyewear == <<"E", "y", "e", "w", "e", "a", "r">>
THead == <<"H", "e", "a", "d">>
TFx == <<"F", "x">>
Star == <<"*">>

trait_order == <<TBg, TBody, TEyewear, THead, TFx>>

Opt(n, r) == [name |-> n, rarity |-> r]

traits ==
    (TBg :> [rarity |-> 5, options |-> <<Opt(<<"R">>, 5), Opt(<<"B">>, 1)>>]) @@
    (TBody :> [rarity |-> 5, options |-> <<Opt(<<"a">>, 3), Opt(<<"b">>, 3)>>]) @@
    (TEyewear :> [rarity |-> 4, options |-> <<Opt(<<"x">>, 3), Opt(<<"y">>, 2)>>]) @@
    (THead :> [rarity |-> 4, options |-> <<Opt(<<"h">>, 3), Opt(<<"k">>, 3)>>]) @@
    (TFx :> [rarity |-> 3, options |-> <<Opt(<<"f">>, 1), Opt(<<"g">>, 5)>>])

\* The value of a rule side as RuleCondition accepts it: a list of strings or
\* a single string.
ListValue(S) == [ty |-> "list", list |-> S, str |-> <<>>]

StrValue(x) == [ty |-> "str", list |-> {}, str |-> x]

\* x in values: membership in a list, the substring test in a str.
PyIn(x, values) ==
    IF values.ty = "str" THEN IsSubstring(x, values.str) ELSE x \in values.list

\* A rule whose sides hold lists of strings.
Rule(it, iv, tt, ev) ==
    [if_condition |-> [trait_type |-> it, value |-> ListValue(iv)],
     then_condition |-> [trait_type |-> tt, excluded_values |-> ListValue(ev)]]

\* The if type comes before the then type in the generation order.
RuleForward == Rule(TBg, {<<"R">>}, TEyewear, {<<"x">>})
\* The then type comes before the if type.
RuleBackward == Rule(THead, {<<"h">>}, TBody, {<<"a">>})
\* Wildcard on the if side.
RuleWild == Rule(TFx, {Star}, THead, {<<"k">>})
\* Both sides name the same trait type.
RuleSelf == Rule(TBody, {<<"b">>}, TBody, {<<"b">>})

Config(rules, max_similar, priority, every) ==
    [rules |-> rules, max_similar_combinations |-> max_similar,
     priority_traits |-> priority, checkpoint_every |-> every]

\* The configurations the runs are started with: without rules, with rules in
\* either direction under a configured priority order, and with a rule on one
\* trait type.
Scenarios ==
    {Config({}, 1, <<>>, 1),
     Config({}, 2, <<>>, 2),
     Config({RuleForward, RuleBackward, RuleWild}, 2, <<THead, TFx>>, 1),
     Config({RuleSelf, RuleForward, RuleBackward}, 1, <<>>, 2)}

Seeds == {None} \cup {Some(n) : n \in 0..(NumSeeds - 1)}

WithSeed(sc, seed) ==
    [rules |-> sc.rules, max_similar_combinations |-> sc.max_similar_combinations,
     priority_traits |-> sc.priority_traits, checkpoint_every |-> sc.checkpoint_every,
     seed |-> seed]

Configs == {WithSeed(sc, seed) : sc \in Scenarios, seed \in Seeds}

_rules_by_then(c, tt) == {r \in c.rules : r.then_condition.trait_type = tt}
_rules_by_if(c, tt) == {r \in c.rules : r.if_condition.trait_type = tt}

(***************************************************************************)
(* The global random stream.  Its state is abstracted to one integer: the  *)
(* generator is a deterministic function of its state, random() returns    *)
(* RngOut(s) / 256 and every draw advances the state once.                 *)
(***************************************************************************)
RngStep(s) == (s * 25173 + 13849) % 65536
RngOut(s) == s \div 256
SeedState(n) == (n * 7919 + 104729) % 65536

\* The state the interpreter seeds the stream with when no seed is given.
EntropyStates == {17, 40503}

Draw(s, val) == [value |-> val, rng |-> RngStep(s)]

(***************************************************************************)
(* Weighted sampler.                                                       *)
(***************************************************************************)
\* probability = weight * 20
IncludeProbability(weight) == weight * 20

\* random.random() * 100 < probability, under the trait table tr.
IncludeDraw(tr, s, trait_type) ==
    Draw(s, RngOut(s) * 100 < IncludeProbability(tr[trait_type].rarity) * 256)

should_include_trait(s, trait_type) == IncludeDraw(traits, s, trait_type)

RECURSIVE CumWeight(_, _)
CumWeight(options, j) ==
    IF j = 0 THEN 0 ELSE CumWeight(options, j - 1) + options[j].rarity

\* bisect_right(cum_weights, random() * total, 0, n - 1), with the weights of
\* the options as they are (a larger rarity value is drawn more often).
Choice(s, options, n, total) ==
    Cardinality({j \in 1..(n - 1) : CumWeight(options, j) * 256 <= RngOut(s) * total})

ChoiceOf(s, options) == Choice(s, options, Len(options), CumWeight(options, Len(options)))

\* random.choices(range(n), weights, k=1)[0]
select_trait(s, trait_type) ==
    Draw(s, traits[trait_type].options[ChoiceOf(s, traits[trait_type].options) + 1])

(***************************************************************************)
(* OrderedDict of the selected traits: a sequence of <<type, value>>.      *)
(***************************************************************************)
Keys(d) == {d[i][1] : i \in 1..Len(d)}
Get(d, k) == d[CHOOSE i \in 1..Len(d) : d[i][1] = k][2]

(***************************************************************************)
(* Rule engine.                                                            *)
(***************************************************************************)
\* The rule engine without its second loop (rules whose if side names the new
\* trait type): the variant the rule property is compared against.
is_valid_trait_ThenOnly(c, selected_traits, new_trait_type, new_trait_value) ==
    \A rule \in _rules_by_then(c, new_trait_type) :
        ~ /\ rule.if_condition.trait_type \in Keys(selected_traits)
          /\ \/ PyIn(Star, rule.if_condition.value)
             \/ PyIn(Get(selected_traits, rule.if_condition.trait_type),
                     rule.if_condition.value)
          /\ \/ PyIn(Star, rule.then_condition.excluded_values)
             \/ PyIn(new_trait_value, rule.then_condition.excluded_values)

is_valid_trait(c, selected_traits, new_trait_type, new_trait_value) ==
    /\ \A rule \in _rules_by_then(c, new_trait_type) :
          LET condition_trait_type == rule.if_condition.trait_type
              condition_values == rule.if_condition.value
              excluded_values == rule.then_condition.excluded_values
          IN  ~ /\ condition_trait_type \in Keys(selected_traits)
                /\ \/ PyIn(Star, condition_values)
                   \/ PyIn(Get(selected_traits, condition_trait_type), condition_values)
                /\ \/ PyIn(Star, excluded_values)
                   \/ PyIn(new_trait_value, excluded_values)
    /\ \A rule \in _rules_by_if(c, new_trait_type) :
          LET condition_values == rule.if_condition.value
              affected_trait == rule.then_condition.trait_type
              excluded_values == rule.then_condition.excluded_values
          IN  ~ /\ \/ PyIn(Star, condition_values)
                   \/ PyIn(new_trait_value, condition_values)
                /\ affected_trait \in Keys(selected_traits)
                /\ \/ PyIn(Star, excluded_values)
                   \/ PyIn(Get(selected_traits, affected_trait), excluded_values)

(***************************************************************************)
(* Uniqueness tracker.                                                     *)
(***************************************************************************)
RECURSIVE IntTupleLess(_, _)
IntTupleLess(p, q) ==
    IF Len(p) = 0 THEN Len(q) > 0
    ELSE IF Len(q) = 0 THEN FALSE
    ELSE IF p[1] = q[1] THEN IntTupleLess(Tail(p), Tail(q))
    ELSE p[1] < q[1]

RECURSIVE SortedIntTuples(_)
SortedIntTuplesFrom(S, m) == <<m>> \o SortedIntTuples(S \ {m})

SortedIntTuples(S) ==
    IF S = {} THEN <<>>
    ELSE SortedIntTuplesFrom(S, CHOOSE x \in S : \A y \in S \ {x} : IntTupleLess(x, y))

\* itertools.combinations(range(n), 4): the index tuples in lexicographic order.
Combinations4(n) ==
    SortedIntTuples({t \in (1..n) \X (1..n) \X (1..n) \X (1..n) :
                        t[1] < t[2] /\ t[2] < t[3] /\ t[3] < t[4]})

\* tuple(sorted(combo)) for every combo.
PatternsOf(t, combos) ==
    [i \in 1..Len(combos) |-> SortedTuples({t[combos[i][j]] : j \in 1..4})]

get_trait_pattern(t) ==
    IF Len(t) >= 4 THEN PatternsOf(t, Combinations4(Len(t))) ELSE <<>>

get_bsh_combination(t) ==
    IF {TBody, TEyewear, THead} \subseteq Keys(t)
    THEN Some(<<Get(t, TBody), Get(t, TEyewear), Get(t, THead)>>)
    ELSE None

\* Reading a defaultdict at a missing key inserts the default 0.
DefaultRead(d, k) == IF k \in DOMAIN d THEN d ELSE d @@ (k :> 0)

\* all(trait_patterns[p] < MAX for p in patterns), from position i; stops at
\* the first pattern that fails.
RECURSIVE AllBelow(_, _, _, _)
\* The counter test with <= in place of <: the variant the counter bound is
\* compared against.
AllBelowRead_AtMost(tq, patterns, i, max) ==
    IF tq[patterns[i]] <= max
    THEN AllBelow(tq, patterns, i + 1, max)
    ELSE [value |-> FALSE, trait_patterns |-> tq]

AllBelowRead(tq, patterns, i, max) ==
    IF tq[patterns[i]] < max
    THEN AllBelow(tq, patterns, i + 1, max)
    ELSE [value |-> FALSE, trait_patterns |-> tq]

AllBelow(tp, patterns, i, max) ==
    IF i > Len(patterns) THEN [value |-> TRUE, trait_patterns |-> tp]
    ELSE AllBelowRead(DefaultRead(tp, patterns[i]), patterns, i, max)

\* A tracker that never finds a triple: the variant the triple property is
\* compared against.
BshSeen_Never(g, bsh_combo) == FALSE

\* The triple test of is_unique_enough.
BshSeen(g, bsh_combo) == ~IsNone(bsh_combo) /\ bsh_combo[1] \in g.bsh_combinations

is_unique_enough(g, c, t) ==
    IF BshSeen(g, get_bsh_combination(t))
    THEN [value |-> FALSE, trait_patterns |-> g.trait_patterns]
    ELSE AllBelow(g.trait_patterns, get_trait_pattern(t), 1, c.max_similar_combinations)

RECURSIVE IncrementAll(_, _, _)
IncrementRead(tq, patterns, i) ==
    IncrementAll([tq EXCEPT ![patterns[i]] = @ + 1], patterns, i + 1)

IncrementAll(tp, patterns, i) ==
    IF i > Len(patterns) THEN tp
    ELSE IncrementRead(DefaultRead(tp, patterns[i]), patterns, i)

BshAdd(bsh_combinations, bsh_combo) ==
    IF IsNone(bsh_combo) THEN bsh_combinations ELSE bsh_combinations \cup {bsh_combo[1]}

update_patterns(g, t) ==
    [g EXCEPT !.trait_patterns = IncrementAll(@, get_trait_pattern(t), 1),
              !.bsh_combinations = BshAdd(@, get_bsh_combination(t))]

(***************************************************************************)
(* Generation loop.                                                        *)
(***************************************************************************)
\* sha256(json.dumps(traits, sort_keys=True)): the hash is taken to be
\* injective, so the digest is the item list in sorted key order.
Digest(t) == SortedTuples(Range(t))

\* priority_traits + [t for t in trait_order if t not in priority_traits]
OrderFrom(priority_traits) ==
    priority_traits \o SelectSeq(trait_order, LAMBDA t : t \notin Range(priority_traits))

generation_order(c) ==
    OrderFrom(IF Len(c.priority_traits) > 0 THEN c.priority_traits
              ELSE IF Len(trait_order) >= 3 THEN SubSeq(trait_order, 1, 3)
              ELSE trait_order)

\* traits[trait_type] = value on the OrderedDict.
DictSet(d, k, v) ==
    IF k \in Keys(d)
    THEN [i \in 1..Len(d) |-> IF d[i][1] = k THEN <<k, v>> ELSE d[i]]
    ELSE Append(d, <<k, v>>)

\* for _ in range(MAX_TRAIT_ATTEMPTS): draw a value (the draw d) until one is
\* valid.
RECURSIVE SelectValidTrait(_, _, _, _, _)
SelectDrawn(c, selected, trait_type, k, d) ==
    IF is_valid_trait(c, selected, trait_type, d.value.name)
    THEN [valid_trait |-> TRUE, traits |-> DictSet(selected, trait_type, d.value.name),
          rng |-> d.rng, draws |-> k + 1]
    ELSE SelectValidTrait(c, d.rng, selected, trait_type, k + 1)

SelectValidTrait(c, s, selected, trait_type, k) ==
    IF k >= MAX_TRAIT_ATTEMPTS
    THEN [valid_trait |-> FALSE, traits |-> selected, rng |-> s, draws |-> k]
    ELSE SelectDrawn(c, selected, trait_type, k, select_trait(s, trait_type))

\* for trait_type in generation_order, from position i: inc is the inclusion
\* draw and r the outcome of the value draws.  Of a candidate, draws is the
\* largest number of value draws made for one trait type and exhausted the
\* trait types for which no valid value was found.
RECURSIVE BuildTraits(_, _, _, _, _)
Noted(b, draws) ==
    [b EXCEPT !.draws = IF draws > @ THEN draws ELSE @]

\* The loop going on to the next trait type after one for which no valid value
\* was found: the variant the attempt property is compared against.
AfterExhaustion_LeftOut(c, order, i, selected, r) ==
    [Noted(BuildTraits(c, r.rng, order, i + 1, selected), r.draws)
        EXCEPT !.exhausted = @ \cup {order[i]}]

\* if not valid_trait: valid_combination = False; break
AfterExhaustion(c, order, i, selected, r) ==
    [valid_combination |-> FALSE, traits |-> selected, rng |-> r.rng,
     draws |-> r.draws, exhausted |-> {order[i]}]

BuildSelected(c, order, i, selected, r) ==
    IF r.valid_trait
    THEN Noted(BuildTraits(c, r.rng, order, i + 1, r.traits), r.draws)
    ELSE AfterExhaustion(c, order, i, selected, r)

BuildIncluded(c, order, i, selected, inc) ==
    IF inc.value
    THEN BuildSelected(c, order, i, selected,
                       SelectValidTrait(c, inc.rng, selected, order[i], 0))
    ELSE BuildTraits(c, inc.rng, order, i + 1, selected)

BuildTraits(c, s, order, i, selected) ==
    IF i > Len(order)
    THEN [valid_combination |-> TRUE, traits |-> selected, rng |-> s,
          draws |-> 0, exhausted |-> {}]
    ELSE BuildIncluded(c, order, i, selected, should_include_trait(s, order[i]))

\* Acceptance without the digest membership test: the variant the digest
\* property is compared against.
AcceptDigest_Unchecked(g, t, nft_hash) ==
    [accepted |-> TRUE,
     g |-> update_patterns([g EXCEPT !.generated_hashes = @ \cup {nft_hash}], t)]

\* The digest test of a candidate the tracker let through.
AcceptDigest(g, t, nft_hash) ==
    IF nft_hash \notin g.generated_hashes
    THEN [accepted |-> TRUE,
          g |-> update_patterns([g EXCEPT !.generated_hashes = @ \cup {nft_hash}], t)]
    ELSE [accepted |-> FALSE, g |-> g]

\* The acceptance test of a complete candidate, u being is_unique_enough of it.
AcceptChecked(g, t, u) ==
    IF u.value
    THEN AcceptDigest([g EXCEPT !.trait_patterns = u.trait_patterns], t, Digest(t))
    ELSE [accepted |-> FALSE,
          g |-> [g EXCEPT !.trait_patterns = u.trait_patterns,
                          !.failed_attempts.uniqueness = @ + 1]]

AcceptCandidate(g, c, t) == AcceptChecked(g, t, is_unique_enough(g, c, t))

\* for attempt in range(MAX_ATTEMPTS), from the given attempt on: b is the
\* candidate built and a its acceptance.
RECURSIVE GenerateAttempts(_, _, _)
\* What a rejected attempt changed of the tracker and the digest set, between
\* the generator before the attempt and after it.
FrameChanges(before, after) ==
    {x \in {"keys", "counts", "triples", "digests"} :
        \/ x = "keys" /\ DOMAIN after.trait_patterns # DOMAIN before.trait_patterns
        \/ x = "counts" /\ \E k \in DOMAIN before.trait_patterns :
                               after.trait_patterns[k] # before.trait_patterns[k]
        \/ x = "triples" /\ after.bsh_combinations # before.bsh_combinations
        \/ x = "digests" /\ after.generated_hashes # before.generated_hashes}

\* The generator after a rejected attempt; frame_changes collects what the
\* rejected attempts of the run changed.
Rejected(before, after) ==
    [after EXCEPT !.frame_changes = @ \cup FrameChanges(before, after)]

AttemptAccepted(c, attempt, t, before, a) ==
    IF a.accepted
    THEN [status |-> "accepted", traits |-> t,
          g |-> [a.g EXCEPT !.call.status = "accepted"]]
    ELSE GenerateAttempts(Rejected(before, a.g), c, attempt + 1)

\* The generate_nft call under way or last made.
NoCall ==
    [status |-> "none", attempts |-> 0, aborted |-> 0, draws |-> 0, exhausted |-> {}]

\* The generator after the candidate b of one more attempt was built; call
\* counts the attempts of the generate_nft call under way, those a trait type
\* aborted, and the largest number of value draws for one trait type.
Counted(g, b) ==
    [g EXCEPT !.rng = b.rng,
              !.call = [@ EXCEPT !.attempts = @ + 1,
                                 !.aborted = @ + IF b.valid_combination THEN 0 ELSE 1,
                                 !.draws = IF b.draws > @ THEN b.draws ELSE @,
                                 !.exhausted = b.exhausted]]

AttemptCounted(g, c, attempt, b, g1) ==
    IF b.valid_combination
    THEN AttemptAccepted(c, attempt, b.traits, g, AcceptCandidate(g1, c, b.traits))
    ELSE GenerateAttempts(
             Rejected(g, [g1 EXCEPT !.failed_attempts.trait_validation = @ + 1,
                                    !.failed_attempts.uniqueness = @ + 1]),
             c, attempt + 1)

AttemptBuilt(g, c, attempt, b) == AttemptCounted(g, c, attempt, b, Counted(g, b))

GenerateAttempts(g, c, attempt) ==
    IF attempt >= MAX_ATTEMPTS
    THEN [status |-> "exhausted", traits |-> <<>>,
          g |-> [g EXCEPT !.call.status = "exhausted"]]
    ELSE AttemptBuilt(g, c, attempt, BuildTraits(c, g.rng, generation_order(c), 1, <<>>))

generate_nft(g, c) == GenerateAttempts([g EXCEPT !.call = NoCall], c, 0)

(***************************************************************************)
(* Checkpoint store.  JSON turns tuples and lists into arrays, and an      *)
(* array read back is a list.                                              *)
(***************************************************************************)
PyList(v) == [ty |-> "list", v |-> v]

\* random.getstate(): (3, (the state words), None).
getstate(s) ==
    [ty |-> "tuple", version |-> 3,
     internalstate |-> [ty |-> "tuple", v |-> s], gauss_next |-> None]

\* json.dump(list(state)) as json.load gives it back.
RngStateJson(st) ==
    [ty |-> "list", version |-> st.version,
     internalstate |-> [ty |-> "list", v |-> st.internalstate.v],
     gauss_next |-> st.gauss_next]

\* tuple(state) of the loaded list: only the outer level becomes a tuple.
TupleOfState(st) == [st EXCEPT !.ty = "tuple"]

\* random.setstate(state): version 3 hands internalstate to the core
\* generator, which raises TypeError unless it is a tuple.
SetStateRaises(st) == st.version # 3 \/ st.internalstate.ty # "tuple"

\* "||".join(f"{a}:{b}" for (a, b) in pattern)
PatternKey(pattern) ==
    Join([i \in 1..Len(pattern) |-> pattern[i][1] \o <<":">> \o pattern[i][2]],
         <<"|", "|">>)

\* for (a, b) in pattern raises ValueError unless every element has 2 parts.
SerializeRaises(tp) ==
    \E pattern \in DOMAIN tp : \E i \in 1..Len(pattern) : Len(pattern[i]) # 2

patterns_serialized(tp) ==
    [k \in {PatternKey(pattern) : pattern \in DOMAIN tp} |->
        tp[CHOOSE pattern \in DOMAIN tp : PatternKey(pattern) = k]]

\* tuple(map(tuple, k.split("||")))
TuplesOfParts(parts) == [i \in 1..Len(parts) |-> TupleOfStr(parts[i])]

ParsePatternKey(k) == TuplesOfParts(Split(k, <<"|", "|">>))

patterns_loaded(pj) ==
    [pattern \in {ParsePatternKey(k) : k \in DOMAIN pj} |->
        pj[CHOOSE k \in DOMAIN pj : ParsePatternKey(k) = pattern]]

\* sorted(list(generated_hashes)): the order of the hex digests is taken to be
\* the order of the texts they hash.
RECURSIVE FlatItems(_)
FlatItems(h) == IF Len(h) = 0 THEN <<>> ELSE h[1] \o FlatItems(Tail(h))

RECURSIVE SortedDigests(_)
SortedDigestsFrom(S, m) == <<m>> \o SortedDigests(S \ {m})

SortedDigests(S) ==
    IF S = {} THEN <<>>
    ELSE SortedDigestsFrom(S, CHOOSE x \in S :
                                  \A y \in S \ {x} : TupleLess(FlatItems(x), FlatItems(y)))

\* damaged holds <<file, kind>> for a checkpoint file whose content is not
\* what _resume_save_state writes: "corrupt" is text that is not JSON and
\* "number" is the JSON text of a number.
EmptyFs == [seen_hashes |-> None, tracker_state |-> None, rng_state |-> None,
            files |-> {}, damaged |-> {}]

DamageKinds == {"corrupt", "number"}

Damage(d, name) ==
    IF \E k \in DamageKinds : <<name, k>> \in d.damaged
    THEN CHOOSE k \in DamageKinds : <<name, k>> \in d.damaged
    ELSE "none"

\* The write replaces the file, damaged or not.
Rewritten(damaged, name) == {x \in damaged : x[1] # name}

\* The "bsh" entry of tracker_state.json.
BshJson(l) == [i \in 1..Len(l) |-> PyList(l[i])]

tracker_data(g) ==
    [bsh |-> BshJson(SortedTuples(g.bsh_combinations)),
     patterns |-> patterns_serialized(g.trait_patterns)]

\* The three writes of _resume_save_state.  The tracker file is not written
\* when serializing the patterns raises; the stream state is written
\* regardless.
SaveSeen(g, d) ==
    [d EXCEPT !.seen_hashes = Some(SortedDigests(g.generated_hashes)),
              !.damaged = Rewritten(@, "seen_hashes.json")]

SaveTracker(g, d) ==
    IF SerializeRaises(g.trait_patterns) THEN d
    ELSE [d EXCEPT !.tracker_state = Some(tracker_data(g)),
                   !.damaged = Rewritten(@, "tracker_state.json")]

SaveRng(g, d) ==
    [d EXCEPT !.rng_state = Some(RngStateJson(getstate(g.rng))),
              !.damaged = Rewritten(@, "rng_state.json")]

_resume_save_state(g, d) == SaveRng(g, SaveTracker(g, SaveSeen(g, d)))

\* An except clause that catches OSError only: the variant the startup is
\* compared against.
CaughtByExcept_OSError(exc) == exc = "OSError"

\* except Exception as e: every exception class of the loaders is caught.
CaughtByExcept(exc) ==
    exc \in {"JSONDecodeError", "TypeError", "AttributeError", "ValueError", "OSError"}

\* An exception raised inside one of the two try blocks: logged as a warning
\* when the except clause catches it, raised to the caller otherwise.
Raised(g, exc) ==
    IF CaughtByExcept(exc) THEN [g EXCEPT !.load_warnings = Append(@, exc)]
    ELSE [g EXCEPT !.raised = exc]

\* What reading a damaged file raises: json.load on text that is not JSON;
\* set(5), (5).get and tuple(5) on a number.
SeenError(kind) == IF kind = "corrupt" THEN "JSONDecodeError" ELSE "TypeError"
TrackerError(kind) == IF kind = "corrupt" THEN "JSONDecodeError" ELSE "AttributeError"
RngError(kind) == IF kind = "corrupt" THEN "JSONDecodeError" ELSE "TypeError"

\* The reads of _resume_load_existing.
LoadSeen(g, d) ==
    IF IsNone(d.seen_hashes) THEN g
    ELSE [g EXCEPT !.generated_hashes = Range(d.seen_hashes[1])]

LoadTracker(g, d) ==
    IF IsNone(d.tracker_state) THEN g
    ELSE IF Damage(d, "tracker_state.json") # "none"
    THEN Raised(g, TrackerError(Damage(d, "tracker_state.json")))
    ELSE [g EXCEPT !.bsh_combinations = {x.v : x \in Range(d.tracker_state[1].bsh)},
                   !.trait_patterns = patterns_loaded(d.tracker_state[1].patterns)]

\* The first try block: an exception on seen_hashes.json leaves the tracker
\* file unread.
LoadFirst(g, d) ==
    IF ~IsNone(d.seen_hashes) /\ Damage(d, "seen_hashes.json") # "none"
    THEN Raised(g, SeenError(Damage(d, "seen_hashes.json")))
    ELSE LoadTracker(LoadSeen(g, d), d)

\* random.setstate(tuple(state)); a TypeError is logged and the stream stays
\* as it was.
SetState(g, state) ==
    IF SetStateRaises(state) THEN Raised(g, "TypeError")
    ELSE [g EXCEPT !.rng = state.internalstate.v]

\* The second try block.
LoadRng(g, d) ==
    IF g.raised # "none" \/ IsNone(d.rng_state) THEN g
    ELSE IF Damage(d, "rng_state.json") # "none"
    THEN Raised(g, RngError(Damage(d, "rng_state.json")))
    ELSE SetState(g, TupleOfState(d.rng_state[1]))

_resume_load_existing(g, d) == LoadRng(LoadFirst(g, d), d)

(***************************************************************************)
(* The generator object and the orchestration loop.  Besides the fields of *)
(* the program, a generator carries history fields: accepted (the outcome  *)
(* of every generate_nft call of this process, in call order),             *)
(* loaded_hashes (the digests read from seen_hashes.json at startup),      *)
(* resumed (whether a checkpoint file existed at startup), load_warnings   *)
(* (the exceptions _resume_load_existing logged) and raised (the exception *)
(* the constructor raised, "none" when it returned), unsaved (the number   *)
(* of IDs the loop processed since it last wrote a checkpoint) and         *)
(* interval (the position of the ID processed last among the IDs processed *)
(* since the checkpoint write before it).  workers is the argument of      *)
(* generate_collection and task_errors the exceptions its collecting loop  *)
(* logged, each with the ID of its task.                                   *)
(***************************************************************************)
output_dir == "output"
image_dir == "output/image"
metadata_dir == "output/metadata"
img_format == "png"

IdleGenerator ==
    [pc |-> "idle", rng |-> 0, generated_hashes |-> {}, trait_patterns |-> <<>>,
     bsh_combinations |-> {},
     failed_attempts |-> [trait_validation |-> 0, uniqueness |-> 0],
     pending_ids |-> <<>>, collection |-> <<>>,
     accepted |-> <<>>, loaded_hashes |-> {}, resumed |-> FALSE,
     load_warnings |-> <<>>, raised |-> "none", unsaved |-> 0,
     interval |-> 0, workers |-> 1, task_errors |-> <<>>, planned |-> <<>>,
     dispatched |-> <<>>, frame_changes |-> {}, call |-> NoCall]

\* if seed is not None: random.seed(seed); e is the state the stream was
\* given when the interpreter started.
SeedRng(c, e) == IF IsNone(c.seed) THEN e ELSE SeedState(c.seed[1])

HasCheckpoint(d) ==
    ~IsNone(d.seen_hashes) \/ ~IsNone(d.tracker_state) \/ ~IsNone(d.rng_state)

Loaded(g, d) ==
    [g EXCEPT !.loaded_hashes = g.generated_hashes, !.resumed = HasCheckpoint(d),
              !.pc = IF g.raised = "none" THEN "ready" ELSE "failed"]

\* NFTGenerator.__init__
NewGenerator(c, e, d) ==
    Loaded(_resume_load_existing(
               [IdleGenerator EXCEPT !.pc = "ready", !.rng = SeedRng(c, e)], d), d)

File(dir, id, ext) == [dir |-> dir, id |-> id, ext |-> ext]

\* The existence test of the pending list.
OutputExists(d, i) ==
    /\ File(output_dir, i, img_format) \in d.files
    /\ File(metadata_dir, i, "json") \in d.files

\* rng.shuffle(x) on a copy of the stream: for i in reversed(range(1, len(x))),
\* swap x[i] and x[randbelow(i + 1)] (0-based), j being the number drawn.
RECURSIVE Shuffle(_, _, _)
ShuffleSwap(x, s, i, j) ==
    Shuffle([x EXCEPT ![i + 1] = x[j + 1], ![j + 1] = x[i + 1]], RngStep(s), i - 1)

Shuffle(x, s, i) ==
    IF i < 1 THEN x ELSE ShuffleSwap(x, s, i, (RngOut(s) * (i + 1)) \div 256)

\* A copy that starts from its own entropy instead of the global stream: the
\* variant determinism is compared against.
ShuffleState_Entropy(g, e) == e

\* The state of the copy that shuffles: rng.setstate(random.getstate()), e
\* being the state a new Random() starts from.
ShuffleState(g, e) == g.rng

ShuffleIds(ids, s) == Shuffle(ids, s, Len(ids) - 1)

pending_ids(g, d, e) ==
    ShuffleIds(SelectSeq([i \in 1..NumNfts |-> i], LAMBDA i : ~OutputExists(d, i)),
               ShuffleState(g, e))

\* The generator with the pending list of its run; planned keeps the list as
\* it was computed.
Planned(g, ids) == [g EXCEPT !.pending_ids = ids, !.planned = ids]

\* pool.apply_async for every ID of every chunk: the chunks are consecutive
\* slices of the pending list, so the tasks are created in its order.
Dispatched(g) == [g EXCEPT !.dispatched = @ \o g.pending_ids]

\* The file extension save_nft writes a static image with.
SaveExt(fmt) == IF fmt = "jpeg" THEN "jpg" ELSE fmt

\* save_nft for static layers: the image, then the metadata.
save_nft(d, nft_id) ==
    [d EXCEPT !.files = @ \cup {File(image_dir, nft_id, SaveExt(img_format)),
                                File(metadata_dir, nft_id, "json")}]

\* The finally block of the loop: the checkpoint every checkpoint_every IDs.
Checkpointed(g, c, d, i) ==
    IF i % c.checkpoint_every = 0
    THEN [g |-> [g EXCEPT !.unsaved = 0, !.interval = g.unsaved + 1],
          fs |-> _resume_save_state(g, d)]
    ELSE [g |-> [g EXCEPT !.unsaved = @ + 1, !.interval = g.unsaved + 1], fs |-> d]

\* The history entry of a generate_nft call.
Outcome(i, r) == [id |-> i, status |-> r.status, traits |-> r.traits]

\* The IDs still to go through after the one at the head failed: the loops
\* iterate over the list once and have no retry.
AfterFailure_Again(pending) == pending

AfterFailure(pending) == Tail(pending)

\* _generate_single_nft_worker on the outcome r of generate_nft; dispatched
\* lists the IDs handed to generation, in order.
Worked(c, d, i, r) ==
    IF r.status = "accepted"
    THEN Checkpointed(
             [r.g EXCEPT !.pending_ids = Tail(@),
                         !.dispatched = Append(@, i),
                         !.collection = Append(@, [id |-> i, traits |-> r.traits,
                                                   hash |-> Digest(r.traits)]),
                         !.accepted = Append(@, Outcome(i, r))],
             c, save_nft(d, i), i)
    ELSE Checkpointed(
             [r.g EXCEPT !.pending_ids = AfterFailure(@),
                         !.dispatched = Append(@, i),
                         !.accepted = Append(@, Outcome(i, r)),
                         !.task_errors = Append(@, <<i, "Exception">>)],
             c, d, i)

\* One iteration of the single-process loop.
ProcessOne(g, c, d) == Worked(c, d, g.pending_ids[1], generate_nft(g, c))

\* Where save_nft can raise: composing or writing the image, or writing the
\* metadata after the image was written.
SaveFailures == {"image", "metadata"}

\* The files save_nft leaves when it raises.
save_nft_raises(d, nft_id, where) ==
    IF where = "metadata"
    THEN [d EXCEPT !.files = @ \cup {File(image_dir, nft_id, SaveExt(img_format))}]
    ELSE d

\* The collection after a worker call that raised inside its try block: the
\* except clause returns None and `if result:` appends nothing.
AfterRaise_Appended(collection, item) == Append(collection, item)

AfterRaise(collection, item) == collection

\* _generate_single_nft_worker when save_nft raises: generate_nft has returned
\* and committed the item; the except clause logs the error and returns None.
WorkedSaveRaises(c, d, i, r, where) ==
    IF r.status = "accepted"
    THEN Checkpointed(
             [r.g EXCEPT !.pending_ids = AfterFailure(@),
                         !.dispatched = Append(@, i),
                         !.collection = AfterRaise(@, [id |-> i, traits |-> r.traits,
                                                       hash |-> Digest(r.traits)]),
                         !.accepted = Append(@, Outcome(i, r)),
                         !.task_errors = Append(@, <<i, "OSError">>)],
             c, save_nft_raises(d, i, where), i)
    ELSE Worked(c, d, i, r)

ProcessOneSaveRaises(g, c, d, where) ==
    WorkedSaveRaises(c, d, g.pending_ids[1], generate_nft(g, c), where)

\* pool.apply_async pickles the bound method _generate_single_nft_worker and
\* with it the generator, whose _resume_lock is a threading.Lock: pickle
\* raises TypeError and the task never reaches a worker.
CanPickle_Always(g) == TRUE

CanPickle(g) == FALSE

\* task.get() of a task that ran: the worker process worked on its own copy
\* of the generator, so of its effects the parent sees the files and the
\* returned item only.
TaskReturned(g, c, d, i, r) ==
    IF r.status = "accepted"
    THEN Checkpointed(
             [g EXCEPT !.pending_ids = Tail(@),
                       !.collection = Append(@, [id |-> i, traits |-> r.traits,
                                                 hash |-> Digest(r.traits)])],
             c, save_nft(d, i), i)
    ELSE Checkpointed([g EXCEPT !.pending_ids = Tail(@)], c, d, i)

\* What task.get(timeout=300) finds of a task that reached a worker: its
\* result, or nothing within the timeout.
TaskOutcomes == {"returned", "timeout"}

\* task.get() raised exc: the except clause logs it and the loop goes on to
\* the next task.
TaskRaised(g, c, d, i, exc) ==
    Checkpointed(
        [g EXCEPT !.pending_ids = AfterFailure(@),
                  !.task_errors = Append(@, <<i, exc>>)],
        c, d, i)

\* One iteration of the collecting loop of _generate_collection_multiprocess.
CollectOne(g, c, d, outcome) ==
    IF ~CanPickle(g) THEN TaskRaised(g, c, d, g.pending_ids[1], "TypeError")
    ELSE IF outcome = "timeout" THEN TaskRaised(g, c, d, g.pending_ids[1], "TimeoutError")
    ELSE TaskReturned(g, c, d, g.pending_ids[1], generate_nft(g, c))

(***************************************************************************)
(* The run: one generator process at a time on one output directory.       *)
(***************************************************************************)
NoRuns == [started |-> 0, stopped_at |-> "none", stopped_items |-> 0,
           stopped_checkpoint |-> FALSE, stopped_workers |-> 0]

Init ==
    /\ cfg \in Configs
    /\ gen = IdleGenerator
    /\ fs = EmptyFs
    /\ runs = NoRuns
    /\ gen2 = IdleGenerator
    /\ fs2 = EmptyFs
    /\ cache = <<>>
    /\ disk = <<>>
    /\ breaker = <<>>
    /\ probe = <<>>

\* A process starts and constructs its generator.
Construct ==
    /\ gen.pc = "idle"
    /\ runs.started < MaxRuns
    /\ \E e \in EntropyStates : gen' = NewGenerator(cfg, e, fs)
    /\ runs' = [runs EXCEPT !.started = @ + 1]
    /\ UNCHANGED <<cfg, fs, gen2, fs2, cache, disk, breaker, probe>>

\* generate_collection up to the loop.
StartCollection ==
    /\ gen.pc = "ready"
    /\ \E e \in EntropyStates :
          gen' = [Planned(gen, pending_ids(gen, fs, e)) EXCEPT !.pc = "running"]
    /\ UNCHANGED <<cfg, fs, runs, gen2, fs2, cache, disk, breaker, probe>>

\* generate_collection with workers > 1 up to the collecting loop: the tasks
\* are created in the order of the pending IDs.
StartCollectionWorkers ==
    /\ gen.pc = "ready"
    /\ \E e \in EntropyStates :
          gen' = [Dispatched(Planned(gen, pending_ids(gen, fs, e))) EXCEPT
                      !.pc = "collecting", !.workers = 2]
    /\ UNCHANGED <<cfg, fs, runs, gen2, fs2, cache, disk, breaker, probe>>

CollectTask ==
    /\ gen.pc = "collecting"
    /\ Len(gen.pending_ids) > 0
    /\ \E outcome \in TaskOutcomes :
          /\ gen' = CollectOne(gen, cfg, fs, outcome).g
          /\ fs' = CollectOne(gen, cfg, fs, outcome).fs
    /\ UNCHANGED <<cfg, runs, gen2, fs2, cache, disk, breaker, probe>>

ProcessItem ==
    /\ gen.pc = "running"
    /\ Len(gen.pending_ids) > 0
    /\ gen' = ProcessOne(gen, cfg, fs).g
    /\ fs' = ProcessOne(gen, cfg, fs).fs
    /\ UNCHANGED <<cfg, runs, gen2, fs2, cache, disk, breaker, probe>>

\* An iteration of the single-process loop in which save_nft raises.
ProcessItemSaveRaises ==
    /\ gen.pc = "running"
    /\ Len(gen.pending_ids) > 0
    /\ \E where \in SaveFailures :
          /\ gen' = ProcessOneSaveRaises(gen, cfg, fs, where).g
          /\ fs' = ProcessOneSaveRaises(gen, cfg, fs, where).fs
    /\ UNCHANGED <<cfg, runs, gen2, fs2, cache, disk, breaker, probe>>

\* After the loop: the final checkpoint.
FinishCollection ==
    /\ gen.pc \in {"running", "collecting"}
    /\ Len(gen.pending_ids) = 0
    /\ gen' = [gen EXCEPT !.pc = "done"]
    /\ fs' = _resume_save_state(gen, fs)
    /\ UNCHANGED <<cfg, runs, gen2, fs2, cache, disk, breaker, probe>>

\* The process ends or is killed; the files stay.
Stop ==
    /\ gen.pc # "idle"
    /\ gen' = IdleGenerator
    /\ runs' = [runs EXCEPT !.stopped_at = gen.pc,
                            !.stopped_items = Len(gen.collection),
                            !.stopped_checkpoint = ~IsNone(fs.seen_hashes),
                            !.stopped_workers = gen.workers]
    /\ UNCHANGED <<cfg, fs, gen2, fs2, cache, disk, breaker, probe>>

Next ==
    \/ Construct \/ StartCollection \/ ProcessItem \/ FinishCollection \/ Stop
    \/ StartCollectionWorkers \/ CollectTask

Spec == Init /\ [][Next]_vars

\* The single-process run on a file system whose writes can fail.
FailuresNext ==
    \/ Construct \/ StartCollection \/ ProcessItem \/ ProcessItemSaveRaises
    \/ FinishCollection

SpecFailures == Init /\ [][FailuresNext]_vars

(***************************************************************************)
(* Two processes with the same configuration, each on its own empty output *)
(* directory: gen on fs, gen2 on fs2.                                      *)
(***************************************************************************)
Construct2 ==
    /\ gen2.pc = "idle"
    /\ \E e \in EntropyStates : gen2' = NewGenerator(cfg, e, fs2)
    /\ UNCHANGED <<cfg, gen, fs, runs, fs2, cache, disk, breaker, probe>>

StartCollection2 ==
    /\ gen2.pc = "ready"
    /\ \E e \in EntropyStates :
          gen2' = [Planned(gen2, pending_ids(gen2, fs2, e)) EXCEPT !.pc = "running"]
    /\ UNCHANGED <<cfg, gen, fs, runs, fs2, cache, disk, breaker, probe>>

ProcessItem2 ==
    /\ gen2.pc = "running"
    /\ Len(gen2.pending_ids) > 0
    /\ gen2' = ProcessOne(gen2, cfg, fs2).g
    /\ fs2' = ProcessOne(gen2, cfg, fs2).fs
    /\ UNCHANGED <<cfg, gen, fs, runs, cache, disk, breaker, probe>>

FinishCollection2 ==
    /\ gen2.pc = "running"
    /\ Len(gen2.pending_ids) = 0
    /\ gen2' = [gen2 EXCEPT !.pc = "done"]
    /\ fs2' = _resume_save_state(gen2, fs2)
    /\ UNCHANGED <<cfg, gen, fs, runs, cache, disk, breaker, probe>>

NextTwoRuns ==
    \/ Construct \/ StartCollection \/ ProcessItem \/ FinishCollection
    \/ Construct2 \/ StartCollection2 \/ ProcessItem2 \/ FinishCollection2

SpecTwoRuns == Init /\ [][NextTwoRuns]_vars

(***************************************************************************)
(* Image cache of ImageProcessor.  The cache is the OrderedDict as a       *)
(* sequence of entries in dictionary order; clock is the last value        *)
(* time.time() returned, and two calls in a row may return the same value. *)
(* A miss is a sequence of steps: the two eviction loops of                *)
(* _ensure_cache_space, one iteration each step, then the insertion.       *)
(* Each entry carries a history field, accessed: the number of the call of *)
(* load_image_cached that last hit or inserted it.                         *)
(***************************************************************************)
MaxLoads == 4

\* Width and height of the decoded image at each path.
image_size ==
    ("a.png" :> <<512, 512>>) @@ ("b.png" :> <<512, 1024>>) @@ ("c.png" :> <<1024, 1024>>)

Paths == DOMAIN image_size

CacheConfigs == {[cache_size |-> n, max_memory_mb |-> m] : n \in {0, 1, 2, 3}, m \in {2, 3}}

\* ImageProcessor.__init__
NewImageProcessor(k) ==
    [cache_size |-> k.cache_size,
     max_memory_bytes |-> k.max_memory_mb * 1024 * 1024,
     current_memory_bytes |-> 0,
     _image_cache |-> <<>>,
     _cache_hits |-> 0,
     _cache_misses |-> 0,
     clock |-> 0,
     pc |-> "idle",
     safe_path |-> "",
     image_memory_bytes |-> 0,
     evicted |-> <<>>]

\* time.time() after the value t
Now(t) == {t, t + 1}

CachedPaths(p) == {p._image_cache[i].path : i \in 1..Len(p._image_cache)}

IndexOf(p, path) ==
    CHOOSE i \in 1..Len(p._image_cache) : p._image_cache[i].path = path

\* move_to_end
MoveToEnd(q, i) ==
    [j \in 1..Len(q) |-> IF j < i THEN q[j] ELSE IF j < Len(q) THEN q[j + 1] ELSE q[i]]

Remove(q, i) == [j \in 1..(Len(q) - 1) |-> IF j < i THEN q[j] ELSE q[j + 1]]

\* The last key in dictionary order among those with the least access time:
\* the variant the eviction order is compared against.
LruIndex_LastMin(q) ==
    CHOOSE i \in 1..Len(q) :
        /\ \A j \in 1..Len(q) : q[i].access_time <= q[j].access_time
        /\ \A j \in (i + 1)..Len(q) : q[j].access_time > q[i].access_time

\* min(keys, key=access_time): the first key in dictionary order among those
\* with the least access time.
LruIndex(q) ==
    CHOOSE i \in 1..Len(q) :
        /\ \A j \in 1..Len(q) : q[i].access_time <= q[j].access_time
        /\ \A j \in 1..(i - 1) : q[j].access_time > q[i].access_time

\* _evict_lru_item; evicted records the entry removed and the entries it was
\* chosen among.
EvictAt(p, i) ==
    [p EXCEPT !.current_memory_bytes = @ - p._image_cache[i].size_bytes,
              !._image_cache = Remove(@, i),
              !.evicted = <<[entry |-> p._image_cache[i], among |-> p._image_cache]>>]

_evict_lru_item(p) ==
    IF Len(p._image_cache) = 0 THEN p ELSE EvictAt(p, LruIndex(p._image_cache))

Loads(p) == p._cache_hits + p._cache_misses

CacheInit ==
    /\ cfg \in {WithSeed(Config({}, 1, <<>>, 1), None)}
    /\ gen = IdleGenerator
    /\ fs = EmptyFs
    /\ runs = NoRuns
    /\ gen2 = IdleGenerator
    /\ fs2 = EmptyFs
    /\ \E k \in CacheConfigs : cache = NewImageProcessor(k)
    /\ disk = <<>>
    /\ breaker = <<>>
    /\ probe = <<>>

\* load_image_cached on a cached path.
LoadHit ==
    /\ cache.pc = "idle"
    /\ Loads(cache) < MaxLoads
    /\ \E path \in CachedPaths(cache), t \in Now(cache.clock) :
          cache' = [cache EXCEPT
                       !._image_cache =
                           MoveToEnd([@ EXCEPT ![IndexOf(cache, path)].access_time = t,
                                               ![IndexOf(cache, path)].accessed =
                                                   Loads(cache) + 1],
                                     IndexOf(cache, path)),
                       !.clock = t,
                       !._cache_hits = @ + 1,
                       !.evicted = <<>>]
    /\ UNCHANGED <<cfg, gen, fs, runs, gen2, fs2, disk, breaker, probe>>

\* load_image_cached on a path that is not cached, up to the call of
\* _ensure_cache_space.
LoadMiss ==
    /\ cache.pc = "idle"
    /\ Loads(cache) < MaxLoads
    /\ \E path \in Paths \ CachedPaths(cache) :
          cache' = [cache EXCEPT
                       !.pc = "count",
                       !.safe_path = path,
                       !.image_memory_bytes = image_size[path][1] * image_size[path][2] * 4,
                       !.evicted = <<>>]
    /\ UNCHANGED <<cfg, gen, fs, runs, gen2, fs2, disk, breaker, probe>>

\* The count loop with > in place of >=: the variant the count budget is
\* compared against.
CountLoopRuns_Above(p) == Len(p._image_cache) > p.cache_size

\* The condition of the count loop.
CountLoopRuns(p) == Len(p._image_cache) >= p.cache_size

\* while len(self._image_cache) >= self.cache_size: one iteration.
EvictForCount ==
    /\ cache.pc = "count"
    /\ CountLoopRuns(cache)
    /\ cache' = _evict_lru_item(cache)
    /\ UNCHANGED <<cfg, gen, fs, runs, gen2, fs2, disk, breaker, probe>>

CountLoopEnds ==
    /\ cache.pc = "count"
    /\ ~CountLoopRuns(cache)
    /\ cache' = [cache EXCEPT !.pc = "memory"]
    /\ UNCHANGED <<cfg, gen, fs, runs, gen2, fs2, disk, breaker, probe>>

MemoryLoopRuns(p) ==
    /\ p.current_memory_bytes + p.image_memory_bytes > p.max_memory_bytes
    /\ Len(p._image_cache) > 0

\* while current + required > max and self._image_cache: one iteration.
EvictForMemory ==
    /\ cache.pc = "memory"
    /\ MemoryLoopRuns(cache)
    /\ cache' = _evict_lru_item(cache)
    /\ UNCHANGED <<cfg, gen, fs, runs, gen2, fs2, disk, breaker, probe>>

\* The entry is added and the image returned.
InsertLoaded ==
    /\ cache.pc = "memory"
    /\ ~MemoryLoopRuns(cache)
    /\ \E t \in Now(cache.clock) :
          cache' = [cache EXCEPT
                       !._image_cache =
                           Append(@, [path |-> cache.safe_path,
                                      size_bytes |-> cache.image_memory_bytes,
                                      access_time |-> t,
                                      accessed |-> Loads(cache) + 1]),
                       !.current_memory_bytes = @ + cache.image_memory_bytes,
                       !._cache_misses = @ + 1,
                       !.clock = t,
                       !.pc = "idle"]
    /\ UNCHANGED <<cfg, gen, fs, runs, gen2, fs2, disk, breaker, probe>>

CacheNext ==
    LoadHit \/ LoadMiss \/ EvictForCount \/ CountLoopEnds \/ EvictForMemory \/ InsertLoaded

SpecCache == CacheInit /\ [][CacheNext]_vars

(***************************************************************************)
(* atomic_file_write of ResourceManager.  disk.files maps a path to the    *)
(* content of the file there (None when there is no file); a content is    *)
(* the sequence of the chunks written.  The writer is at pc "body" while   *)
(* the with block of the caller runs and at "replace" once the temporary   *)
(* file is closed.  previous and outcome are history fields: the content   *)
(* of the target when the write began and the way the write ended.         *)
(***************************************************************************)
NumChunks == 2
MaxWrites == 2

Targets == {"seen_hashes.json", "tracker_state.json", "rng_state.json"}

\* file_path.with_suffix(f"{file_path.suffix}.tmp")
temp_path_Target(file_path) == file_path

temp_path(file_path) == file_path \o ".tmp"

DiskPaths == Targets \cup {temp_path(t) : t \in Targets}

\* What the w-th write puts into its file.
NewContent(w) == [k \in 1..NumChunks |-> w]

IdleDisk ==
    [files |-> [n \in DiskPaths |-> None], pc |-> "idle", file_path |-> "",
     content |-> <<>>, writes |-> 0, previous |-> None, outcome |-> "none"]

\* The except clause: if temp_path.exists(): temp_path.unlink(); raise
WriteRaised(d) ==
    [d EXCEPT !.files[temp_path(d.file_path)] = None, !.pc = "idle",
              !.outcome = "raised"]

AtomicInit ==
    /\ cfg \in {WithSeed(Config({}, 1, <<>>, 1), None)}
    /\ gen = IdleGenerator
    /\ fs = EmptyFs
    /\ runs = NoRuns
    /\ gen2 = IdleGenerator
    /\ fs2 = EmptyFs
    /\ cache = <<>>
    /\ disk = IdleDisk
    /\ breaker = <<>>
    /\ probe = <<>>

\* open(temp_path, 'w'): the temporary file is created or truncated.
OpenTemp ==
    /\ disk.pc = "idle"
    /\ disk.writes < MaxWrites
    /\ \E file_path \in Targets :
          disk' = [disk EXCEPT !.files[temp_path(file_path)] = Some(<<>>),
                               !.pc = "body",
                               !.file_path = file_path,
                               !.content = NewContent(disk.writes + 1),
                               !.writes = @ + 1,
                               !.previous = disk.files[file_path],
                               !.outcome = "none"]
    /\ UNCHANGED <<cfg, gen, fs, runs, gen2, fs2, cache, breaker, probe>>

Written(d) == Len(d.files[temp_path(d.file_path)][1])

\* The body writes the next chunk.
WriteChunk ==
    /\ disk.pc = "body"
    /\ Written(disk) < NumChunks
    /\ disk' = [disk EXCEPT !.files[temp_path(disk.file_path)] =
                                Some(Append(@[1], disk.content[Written(disk) + 1]))]
    /\ UNCHANGED <<cfg, gen, fs, runs, gen2, fs2, cache, breaker, probe>>

\* The body ends and the with statement closes the temporary file.
BodyReturns ==
    /\ disk.pc = "body"
    /\ Written(disk) = NumChunks
    /\ disk' = [disk EXCEPT !.pc = "replace"]
    /\ UNCHANGED <<cfg, gen, fs, runs, gen2, fs2, cache, breaker, probe>>

\* The body raises at any point of its writing.
BodyRaises ==
    /\ disk.pc = "body"
    /\ disk' = WriteRaised(disk)
    /\ UNCHANGED <<cfg, gen, fs, runs, gen2, fs2, cache, breaker, probe>>

\* os.replace(temp_path, file_path)
Replace ==
    /\ disk.pc = "replace"
    /\ disk' = [disk EXCEPT !.files =
                                [[@ EXCEPT ![disk.file_path] =
                                               disk.files[temp_path(disk.file_path)]]
                                    EXCEPT ![temp_path(disk.file_path)] = None],
                            !.pc = "idle",
                            !.outcome = "returned"]
    /\ UNCHANGED <<cfg, gen, fs, runs, gen2, fs2, cache, breaker, probe>>

\* os.replace raises OSError.
ReplaceRaises ==
    /\ disk.pc = "replace"
    /\ disk' = WriteRaised(disk)
    /\ UNCHANGED <<cfg, gen, fs, runs, gen2, fs2, cache, breaker, probe>>

\* The process is killed during the write; the files stay as they are.
CrashInWrite ==
    /\ disk.pc \in {"body", "replace"}
    /\ disk' = [disk EXCEPT !.pc = "idle", !.outcome = "crashed"]
    /\ UNCHANGED <<cfg, gen, fs, runs, gen2, fs2, cache, breaker, probe>>

AtomicNext ==
    \/ OpenTemp \/ WriteChunk \/ BodyReturns \/ BodyRaises
    \/ Replace \/ ReplaceRaises \/ CrashInWrite

SpecAtomic == AtomicInit /\ [][AtomicNext]_vars

(***************************************************************************)
(* Properties of the tracker, the rules and the digests.                   *)
(***************************************************************************)
\* The trait maps generate_nft returned in this process, in call order.
AcceptedTraits ==
    SelectSeq(gen.accepted, LAMBDA o : o.status = "accepted")

AllPairs == {<<ty, traits[ty].options[k].name>> :
                ty \in Range(trait_order), k \in 1..2}

\* Every canonical pattern: 4 pairs of 4 different trait types, sorted.
AllPatterns ==
    {SortedTuples(S) : S \in {S \in SUBSET AllPairs :
         Cardinality(S) = 4 /\ Cardinality({q[1] : q \in S}) = 4}}

Contains(o, pattern) == Range(pattern) \subseteq Range(o.traits)

Counter(pattern) ==
    IF pattern \in DOMAIN gen.trait_patterns THEN gen.trait_patterns[pattern] ELSE 0

\* C1: in a process started without checkpoint files, the counter of every
\* canonical 4-pattern equals the number of accepted candidates that contain
\* the pattern, and is at most max_similar_combinations.
C1_PatternCounters ==
    ~gen.resumed =>
        /\ DOMAIN gen.trait_patterns \subseteq AllPatterns
        /\ \A pattern \in AllPatterns :
              /\ Counter(pattern) =
                     Cardinality({k \in 1..Len(AcceptedTraits) :
                                     Contains(AcceptedTraits[k], pattern)})
              /\ Counter(pattern) <= cfg.max_similar_combinations

\* Two accepted candidates share a pattern, whose counter has reached a
\* limit of 2.
C1_Witness ==
    /\ ~gen.resumed
    /\ cfg.max_similar_combinations = 2
    /\ \E pattern \in DOMAIN gen.trait_patterns : gen.trait_patterns[pattern] = 2

HasTriple(o) == {TBody, TEyewear, THead} \subseteq Keys(o.traits)
Triple(o) == <<Get(o.traits, TBody), Get(o.traits, TEyewear), Get(o.traits, THead)>>

\* C2: no two candidates accepted by one process that hold Body, Eyewear and
\* Head have the same triple of values, whatever max_similar_combinations is.
C2_TripleUnique ==
    \A i, j \in 1..Len(AcceptedTraits) :
        (/\ i < j
         /\ HasTriple(AcceptedTraits[i])
         /\ HasTriple(AcceptedTraits[j]))
        => Triple(AcceptedTraits[i]) # Triple(AcceptedTraits[j])

\* Three candidates with a triple were accepted under a limit of 2.
C2_Witness ==
    /\ cfg.max_similar_combinations = 2
    /\ Cardinality({k \in 1..Len(AcceptedTraits) : HasTriple(AcceptedTraits[k])}) >= 3

Matches(values, v) == PyIn(Star, values) \/ PyIn(v, values)

\* The candidate o holds both trait types of the rule, the if value matches
\* and the then value is excluded.
Violates(o, rule) ==
    /\ rule.if_condition.trait_type \in Keys(o.traits)
    /\ rule.then_condition.trait_type \in Keys(o.traits)
    /\ Matches(rule.if_condition.value,
               Get(o.traits, rule.if_condition.trait_type))
    /\ Matches(rule.then_condition.excluded_values,
               Get(o.traits, rule.then_condition.trait_type))

Position(order, ty) == CHOOSE i \in 1..Len(order) : order[i] = ty

\* The if side of the rule matches in o and the then type is present.
Applies(o, rule) ==
    /\ rule.if_condition.trait_type \in Keys(o.traits)
    /\ rule.then_condition.trait_type \in Keys(o.traits)
    /\ Matches(rule.if_condition.value,
               Get(o.traits, rule.if_condition.trait_type))

C4_DigestsDistinct ==
    /\ \A i, j \in 1..Len(AcceptedTraits) :
          i # j => Range(AcceptedTraits[i].traits) # Range(AcceptedTraits[j].traits)
    /\ \A i, j \in 1..Len(gen.collection) :
          i # j => gen.collection[i].hash # gen.collection[j].hash
    /\ \A i \in 1..Len(gen.collection) :
          gen.collection[i].hash \notin gen.loaded_hashes
    /\ gen.generated_hashes =
          gen.loaded_hashes \cup {gen.collection[i].hash : i \in 1..Len(gen.collection)}
    /\ \A k \in 1..Len(gen.accepted) : gen.accepted[k].status \in {"accepted", "exhausted"}
    /\ Len(gen.collection) = Len(AcceptedTraits)

\* A resumed process that loaded digests accepted a candidate, and one of
\* its calls was exhausted.
C4_Witness ==
    /\ gen.loaded_hashes # {}
    /\ Len(gen.collection) > 0
    /\ \E k \in 1..Len(gen.accepted) : gen.accepted[k].status = "exhausted"

(***************************************************************************)
(* Properties of the checkpoint and of resuming.                           *)
(***************************************************************************)
\* One uninterrupted run of the whole batch on an empty output directory,
\* folded over the loop from the state r; its value is the final digest set.
RECURSIVE RunToEnd(_, _)
RunToEnd(c, r) ==
    IF Len(r.g.pending_ids) = 0 THEN r.g.generated_hashes
    ELSE RunToEnd(c, ProcessOne(r.g, c, r.fs))

StartedRun(g, d, e) ==
    [g |-> [g EXCEPT !.pc = "running", !.pending_ids = pending_ids(g, d, e)], fs |-> d]

UninterruptedDigests(c, e) ==
    RunToEnd(c, StartedRun(NewGenerator(c, e, EmptyFs), EmptyFs, e))

\* The second process finished the batch a first process had left after at
\* least one accepted item and a written checkpoint.
ResumedRunDone ==
    /\ gen.pc = "done"
    /\ runs.started = 2
    /\ runs.stopped_at = "running"
    /\ runs.stopped_items >= 1
    /\ runs.stopped_checkpoint
    /\ runs.stopped_workers = 1
    /\ gen.workers = 1
    /\ ~IsNone(cfg.seed)

\* C5: with a seed and one worker, a run stopped after K >= 1 accepted items
\* and a checkpoint, and finished by a new generator on the same directory,
\* ends with the digest set of one uninterrupted run of the whole batch.
C5_ResumeEquivalence ==
    ResumedRunDone =>
        \A e \in EntropyStates : gen.generated_hashes = UninterruptedDigests(cfg, e)

\* The pending list right after generate_collection computed it.
PendingComputed == gen.pc = "running" /\ Len(gen.accepted) = 0

\* C6: an ID of 1..N is pending exactly when the image file save_nft writes
\* for it and its metadata file do not both exist.
C6_PendingSet ==
    PendingComputed =>
        Range(gen.pending_ids) =
            {i \in 1..NumNfts :
                ~ /\ File(image_dir, i, SaveExt(img_format)) \in fs.files
                  /\ File(metadata_dir, i, "json") \in fs.files}

\* Every trait map with all five trait types.
FullCandidates ==
    {[i \in 1..Len(trait_order) |-> <<trait_order[i], traits[trait_order[i]].options[f[i]].name>>] :
        f \in [1..Len(trait_order) -> 1..2]}

\* g was saved to d, l is what a fresh generator loaded from d, and d2 is what
\* l saved again.
RoundTripHolds(g, c, d, l, d2) ==
    /\ l.generated_hashes = g.generated_hashes
    /\ l.bsh_combinations = g.bsh_combinations
    /\ DOMAIN l.trait_patterns = DOMAIN g.trait_patterns
    /\ \A pattern \in DOMAIN g.trait_patterns :
          l.trait_patterns[pattern] = g.trait_patterns[pattern]
    /\ \A t \in FullCandidates :
          is_unique_enough(l, c, t).value = is_unique_enough(g, c, t).value
    /\ ~SerializeRaises(l.trait_patterns)
    /\ d2.tracker_state = d.tracker_state

RoundTripLoaded(g, c, d, l) == RoundTripHolds(g, c, d, l, _resume_save_state(l, d))

RoundTripSaved(g, c, d) == RoundTripLoaded(g, c, d, _resume_load_existing(IdleGenerator, d))

\* C7: saving the state of a generator and loading it in a fresh generator
\* restores the digest set, the pattern counters (same keys, same counts) and
\* the triple set, is_unique_enough answers alike before and after, and
\* saving again succeeds and writes the same tracker content.
C7_CheckpointRoundTrip ==
    gen.pc \in {"running", "done"} => RoundTripSaved(gen, cfg, _resume_save_state(gen, fs))

\* C8: a generator constructed on a directory that holds rng_state.json
\* continues the stream from the state saved there.
C8_StreamRestored ==
    (gen.pc = "ready" /\ ~IsNone(fs.rng_state))
        => gen.rng = fs.rng_state[1].internalstate.v

(***************************************************************************)
(* Determinism of a seeded run.                                            *)
(***************************************************************************)
Started(g) == g.pc \in {"running", "done"}

\* The IDs in the order the loop takes them.
IdOrder(g) == [k \in 1..Len(g.accepted) |-> g.accepted[k].id] \o g.pending_ids

Shorter(a, b) == IF Len(a) <= Len(b) THEN Len(a) ELSE Len(b)

\* C9: with a seed and no rules, two runs of one worker that both start
\* without checkpoint files take the IDs in the same order and give every ID
\* the same outcome and the same trait map.
C9_Determinism ==
    (cfg.rules = {} /\ ~IsNone(cfg.seed)) =>
        /\ (Started(gen) /\ Started(gen2)) => IdOrder(gen) = IdOrder(gen2)
        /\ \A k \in 1..Shorter(gen.accepted, gen2.accepted) :
              gen.accepted[k] = gen2.accepted[k]
        /\ (gen.pc = "done" /\ gen2.pc = "done") => gen.collection = gen2.collection

\* Both seeded runs are complete, took the IDs in another order than 1..N and
\* accepted a candidate.
C9_Witness ==
    /\ cfg.rules = {}
    /\ ~IsNone(cfg.seed)
    /\ gen.pc = "done"
    /\ gen2.pc = "done"
    /\ Len(gen.accepted) = NumNfts
    /\ IdOrder(gen) # [k \in 1..NumNfts |-> k]
    /\ Len(gen.collection) > 0

(***************************************************************************)
(* Memory budget of the image cache.                                       *)
(***************************************************************************)
\* C10: after any sequence of load_image_cached calls, whatever the sizes of
\* the images, current_memory_bytes is at most max_memory_bytes.
C10_MemoryBudget == cache.current_memory_bytes <= cache.max_memory_bytes

(***************************************************************************)
(* Count budget and eviction order of the image cache.                     *)
(***************************************************************************)
\* C11: after any sequence of load_image_cached calls the cache holds at most
\* cache_size entries.
C11_CountBudget == Len(cache._image_cache) <= cache.cache_size

\* A full cache whose entry was inserted after the count loop evicted the
\* entry before it, although the memory budget had room for both.
C11_Witness ==
    /\ cache.pc = "idle"
    /\ cache.cache_size >= 1
    /\ Len(cache._image_cache) = cache.cache_size
    /\ Len(cache.evicted) = 1
    /\ cache.current_memory_bytes + cache.evicted[1].entry.size_bytes
           <= cache.max_memory_bytes

\* The eviction recorded in ev removed the entry accessed longest ago.
EvictedOldest(ev) ==
    \A i \in 1..Len(ev.among) : ev.entry.accessed <= ev.among[i].accessed

\* C12: every eviction removes the entry whose last access (hit or
\* insertion) is the oldest among the entries cached at that moment, so an
\* entry hit after another was inserted is not evicted before that other
\* unless the other was accessed again.
C12_EvictsOldest ==
    \A k \in 1..Len(cache.evicted) : EvictedOldest(cache.evicted[k])

\* An eviction among two entries of equal access time, the one inserted
\* first having been hit after the other was inserted.
C12_Witness ==
    /\ Len(cache.evicted) = 1
    /\ Len(cache.evicted[1].among) = 2
    /\ cache.evicted[1].among[1].access_time = cache.evicted[1].among[2].access_time
    /\ cache.evicted[1].among[2].path = "a.png"
    /\ cache.evicted[1].among[2].accessed >= 3

(***************************************************************************)
(* Atomicity of atomic_file_write.                                         *)
(***************************************************************************)
Complete(f) == IsNone(f) \/ Len(f[1]) = NumChunks

CheckpointFiles == {"seen_hashes.json", "tracker_state.json", "rng_state.json"}

FileStates == {"missing", "valid"} \cup DamageKinds

FirstItem(c, r) == ProcessOne(r.g, c, r.fs)

SavedAfter(r) == _resume_save_state(r.g, r.fs)

\* The directory a run of c leaves when it is stopped after the checkpoint
\* that follows its first item.
SampleCheckpoint(c) ==
    SavedAfter(FirstItem(c, StartedRun(NewGenerator(c, 17, EmptyFs), EmptyFs, 17)))

\* The content of a file in state st, v being its intact content.
FileIn(st, v) == IF st = "missing" THEN None ELSE IF st = "valid" THEN v ELSE Some(<<>>)

\* The directory d with each checkpoint file put into the state st gives it.
StartupDir(d, st) ==
    [d EXCEPT !.seen_hashes = FileIn(st["seen_hashes.json"], @),
              !.tracker_state = FileIn(st["tracker_state.json"], @),
              !.rng_state = FileIn(st["rng_state.json"], @),
              !.damaged = {<<n, st[n]>> : n \in {m \in CheckpointFiles : st[m] \in DamageKinds}}]

StartupConfigs == {WithSeed(sc, seed) : sc \in Scenarios, seed \in {None, Some(0)}}

StartupInit ==
    /\ cfg \in StartupConfigs
    /\ gen = IdleGenerator
    /\ fs \in {StartupDir(SampleCheckpoint(cfg), st) : st \in [CheckpointFiles -> FileStates]}
    /\ runs = NoRuns
    /\ gen2 = IdleGenerator
    /\ fs2 = EmptyFs
    /\ cache = <<>>
    /\ disk = <<>>
    /\ breaker = <<>>
    /\ probe = <<>>

StartupNext == Construct \/ StartCollection \/ ProcessItem \/ FinishCollection

SpecStartup == StartupInit /\ [][StartupNext]_vars

C15_CheckpointCadence == gen.workers = 1 => gen.interval <= cfg.checkpoint_every

\* The digests in seen_hashes.json.
SeenOnDisk(d) == IF IsNone(d.seen_hashes) THEN {} ELSE Range(d.seen_hashes[1])

TicksPerSecond == 2

failure_threshold == 3

recovery_timeout == 30 * TicksPerSecond

max_retries == 3

base_delay == TicksPerSecond \div 2

max_delay == 30 * TicksPerSecond

backoff_factor == 2

\* Calls of record_success and record_failure, advances of the clock and
\* guarded reads explored.
MaxRecords == 6

MaxTicks == 4

MaxCalls == 2

\* CircuitBreaker.__init__
NewBreaker ==
    [state |-> "CLOSED", failure_count |-> 0, success_count |-> 0,
     last_failure_time |-> None]

_should_attempt_reset(cb, now) ==
    IF cb.state # "OPEN" THEN FALSE
    ELSE IF IsNone(cb.last_failure_time) THEN TRUE
    ELSE now - cb.last_failure_time[1] >= recovery_timeout

\* Entering HALF_OPEN with the success count as it is: the variant the
\* recovery property is compared against.
EnterHalfOpen_KeepsCount(cb) == [cb EXCEPT !.state = "HALF_OPEN"]

\* self.state = HALF_OPEN; self.success_count = 0
EnterHalfOpen(cb) == [cb EXCEPT !.state = "HALF_OPEN", !.success_count = 0]

can_execute(cb, now) ==
    IF cb.state \in {"CLOSED", "HALF_OPEN"} THEN [ok |-> TRUE, cb |-> cb]
    ELSE IF _should_attempt_reset(cb, now)
    THEN [ok |-> TRUE, cb |-> EnterHalfOpen(cb)]
    ELSE [ok |-> FALSE, cb |-> cb]

\* The state test that guards the recovery branch of record_success.
ClosesOnSuccess_NotClosed(cb) == cb.state # "CLOSED"

ClosesOnSuccess(cb) == cb.state = "HALF_OPEN"

record_success(cb) ==
    IF ClosesOnSuccess(cb) /\ cb.success_count + 1 >= 2
    THEN [cb EXCEPT !.state = "CLOSED", !.failure_count = 0, !.success_count = 0]
    ELSE [cb EXCEPT !.success_count = @ + 1]

record_failure(cb, now) ==
    IF cb.state = "HALF_OPEN"
    THEN [cb EXCEPT !.state = "OPEN", !.failure_count = failure_threshold,
                    !.last_failure_time = Some(now)]
    ELSE IF cb.failure_count + 1 >= failure_threshold
    THEN [cb EXCEPT !.state = "OPEN", !.failure_count = @ + 1,
                    !.last_failure_time = Some(now)]
    ELSE [cb EXCEPT !.failure_count = @ + 1, !.last_failure_time = Some(now)]

\* No guarded read under way.  attempt is the loop variable of the retry
\* wrapper; opens counts the files opened, outcomes lists what each attempt
\* raised, surfaced is what the wrapper raised to its caller; before is the
\* breaker as the last attempt found it.
IdleCall ==
    [pc |-> "idle", attempt |-> 0, opens |-> 0, outcomes |-> <<>>,
     surfaced |-> "none", slept |-> <<>>,
     before |-> [cooling |-> FALSE, cb |-> NewBreaker, opens |-> 0],
     first |-> NewBreaker]

\* No durable write made yet.  For the last one made: which output it was,
\* whether the breaker was Open with the cooldown not over when it began, how
\* many times the file was opened for it, and what it raised.
NoWrite == [kind |-> "none", cooling |-> FALSE, opens |-> 0, exc |-> "none"]

\* The breaker, the clock, and what has been observed of them: the edges the
\* state has moved along, the failures recorded since the last recorded
\* success (streak), the streak at each move from Closed to Open, the
\* successes recorded since the breaker entered HALF_OPEN (probes),
\* whether successes had been recorded before it last entered HALF_OPEN
\* (discarded), and the number of moves from OPEN to HALF_OPEN (resets).
NewManager ==
    [cb |-> NewBreaker, now |-> 0, records |-> 0, ticks |-> 0, calls |-> 0,
     edges |-> {}, streak |-> 0, opened_after |-> {}, call |-> IdleCall,
     wrote |-> NoWrite, probes |-> 0, discarded |-> FALSE, resets |-> 0]

Streak(b, kind) ==
    IF kind = "failure" THEN b.streak + 1
    ELSE IF kind = "success" THEN 0
    ELSE b.streak

\* The manager after a method of its breaker returned cb2.
Observed(b, cb2, kind) ==
    [b EXCEPT !.cb = cb2,
              !.records = IF kind = "none" THEN @ ELSE @ + 1,
              !.edges = IF cb2.state = b.cb.state THEN @
                        ELSE @ \cup {<<b.cb.state, cb2.state>>},
              !.streak = Streak(b, kind),
              !.opened_after = IF b.cb.state = "CLOSED" /\ cb2.state = "OPEN"
                               THEN @ \cup {Streak(b, kind)} ELSE @,
              !.probes = IF b.cb.state = "HALF_OPEN" /\ cb2.state = "HALF_OPEN"
                            /\ kind = "success"
                         THEN @ + 1 ELSE IF cb2.state = "HALF_OPEN" THEN @ ELSE 0,
              !.discarded = IF b.cb.state = "OPEN" /\ cb2.state = "HALF_OPEN"
                            THEN b.cb.success_count > 0
                            ELSE IF cb2.state = "OPEN" THEN FALSE ELSE @,
              !.resets = IF b.cb.state = "OPEN" /\ cb2.state = "HALF_OPEN"
                         THEN @ + 1 ELSE @]

BreakerInit ==
    /\ cfg \in {WithSeed(Config({}, 1, <<>>, 1), None)}
    /\ gen = IdleGenerator
    /\ fs = EmptyFs
    /\ runs = NoRuns
    /\ gen2 = IdleGenerator
    /\ fs2 = EmptyFs
    /\ cache = <<>>
    /\ disk = <<>>
    /\ breaker = NewManager
    /\ probe = <<>>

\* The three methods, called in any order by any thread; each runs under the
\* breaker's lock.
CanExecuteCall ==
    /\ breaker' = Observed(breaker, can_execute(breaker.cb, breaker.now).cb, "none")
    /\ UNCHANGED <<cfg, gen, fs, runs, gen2, fs2, cache, disk, probe>>

RecordSuccessCall ==
    /\ breaker.records < MaxRecords
    /\ breaker' = Observed(breaker, record_success(breaker.cb), "success")
    /\ UNCHANGED <<cfg, gen, fs, runs, gen2, fs2, cache, disk, probe>>

RecordFailureCall ==
    /\ breaker.records < MaxRecords
    /\ breaker' = Observed(breaker, record_failure(breaker.cb, breaker.now), "failure")
    /\ UNCHANGED <<cfg, gen, fs, runs, gen2, fs2, cache, disk, probe>>

\* Time passes: half a second, or half a second short of the cooldown.
Elapses == {1, recovery_timeout - 1}

Tick ==
    /\ breaker.ticks < MaxTicks
    /\ breaker.call.pc \in {"idle", "returned"}
    /\ \E dt \in Elapses :
          breaker' = [breaker EXCEPT !.now = @ + dt, !.ticks = @ + 1]
    /\ UNCHANGED <<cfg, gen, fs, runs, gen2, fs2, cache, disk, probe>>

BreakerNext == CanExecuteCall \/ RecordSuccessCall \/ RecordFailureCall \/ Tick

SpecBreaker == BreakerInit /\ [][BreakerNext]_vars

\* What opening and reading the file can do: succeed, fail with a transient
\* I/O error, find no file, or read text that is not JSON.
FileOutcomes == {"ok", "PermissionError", "FileNotFoundError", "JSONDecodeError"}

\* The wrapper's except clause: (IOError, OSError, PermissionError) and their
\* subclasses.
Retried_Any(exc) == TRUE

Retried(exc) == exc \in {"IOError", "OSError", "PermissionError", "FileNotFoundError"}

\* safe_file_operation around a body with the given outcome: the manager
\* after it, the exception leaving it, and whether the file was opened.
\* A refused operation recorded as a failure: the variant the cooldown
\* property is compared against.
AfterRefusal_Recorded(b) == Observed(b, record_failure(b.cb, b.now), "failure")

\* raise RuntimeError before the try block: nothing is recorded.
AfterRefusal(b) == b

safe_file_operation(b, outcome) ==
    IF ~can_execute(b.cb, b.now).ok
    THEN [b |-> AfterRefusal(b), exc |-> "RuntimeError", opened |-> FALSE]
    ELSE IF outcome = "ok"
    THEN [b |-> Observed(Observed(b, can_execute(b.cb, b.now).cb, "none"),
                         record_success(can_execute(b.cb, b.now).cb), "success"),
          exc |-> "none", opened |-> TRUE]
    ELSE [b |-> Observed(Observed(b, can_execute(b.cb, b.now).cb, "none"),
                         record_failure(can_execute(b.cb, b.now).cb, b.now), "failure"),
          exc |-> outcome, opened |-> TRUE]

\* The except clauses of _load_json.
LoadJsonRaises(exc) == IF exc = "JSONDecodeError" THEN "ValueError" ELSE exc

\* min(base_delay * backoff_factor ** attempt, max_delay)
Power(x, n) == IF n = 0 THEN 1 ELSE IF n = 1 THEN x ELSE IF n = 2 THEN x * x ELSE x * x * x

Delay(attempt) ==
    IF base_delay * Power(backoff_factor, attempt) < max_delay
    THEN base_delay * Power(backoff_factor, attempt)
    ELSE max_delay

\* The wrapper after one attempt that left the manager b and raised exc.
Attempted(b, c, exc, opened) ==
    [b EXCEPT !.call =
        [c EXCEPT !.opens = IF opened THEN @ + 1 ELSE @,
                  !.outcomes = Append(@, exc),
                  !.surfaced = IF exc # "none" /\ (~Retried(exc) \/ c.attempt = max_retries)
                               THEN exc ELSE "none",
                  !.pc = IF exc # "none" /\ Retried(exc) /\ c.attempt < max_retries
                         THEN "sleeping" ELSE "returned"]]

\* A caller enters _load_json.
CallLoadJson ==
    /\ breaker.call.pc \in {"idle", "returned"}
    /\ breaker.calls < MaxCalls
    /\ breaker' = [breaker EXCEPT !.calls = @ + 1,
                                  !.call = [IdleCall EXCEPT !.pc = "calling",
                                                            !.first = breaker.cb]]
    /\ UNCHANGED <<cfg, gen, fs, runs, gen2, fs2, cache, disk, probe>>

\* One pass of the wrapper's loop: func is called.
Attempt ==
    /\ breaker.call.pc = "calling"
    /\ \E outcome \in FileOutcomes :
          LET r == safe_file_operation(breaker, outcome)
              c == [breaker.call EXCEPT
                        !.before = [cooling |-> ~can_execute(breaker.cb, breaker.now).ok,
                                    cb |-> breaker.cb, opens |-> breaker.call.opens]]
          IN breaker' = Attempted(r.b, c, LoadJsonRaises(r.exc), r.opened)
    /\ UNCHANGED <<cfg, gen, fs, runs, gen2, fs2, cache, disk, probe>>

\* time.sleep(delay), then the next pass.
Sleep ==
    /\ breaker.call.pc = "sleeping"
    /\ breaker' = [breaker EXCEPT !.now = @ + Delay(breaker.call.attempt),
                                  !.call.slept = Append(@, Delay(breaker.call.attempt)),
                                  !.call.attempt = @ + 1,
                                  !.call.pc = "calling"]
    /\ UNCHANGED <<cfg, gen, fs, runs, gen2, fs2, cache, disk, probe>>

GuardedNext == CallLoadJson \/ Attempt \/ Sleep \/ Tick

SpecGuarded == BreakerInit /\ [][GuardedNext]_vars

(***************************************************************************)
(* The edges of the circuit breaker.                                       *)
(***************************************************************************)
BreakerEdges ==
    {<<"CLOSED", "OPEN">>, <<"OPEN", "HALF_OPEN">>,
     <<"HALF_OPEN", "CLOSED">>, <<"HALF_OPEN", "OPEN">>}

\* C17: however can_execute, record_success and record_failure interleave,
\* the breaker's state changes only along Closed->Open, Open->HalfOpen,
\* HalfOpen->Closed and HalfOpen->Open.
C17_BreakerEdges ==
    [][breaker.cb.state' # breaker.cb.state =>
           <<breaker.cb.state, breaker.cb.state'>> \in BreakerEdges]_vars

\* The breaker has moved along each of the four edges.
C17_Witness == breaker.edges = BreakerEdges

\* C18: the breaker leaves Closed for Open only on the failure that makes
\* failure_threshold failures with no success recorded between them.
C18_OpensOnConsecutiveFailures ==
    \A n \in breaker.opened_after : n = failure_threshold

(***************************************************************************)
(* Guarded reads.                                                          *)
(***************************************************************************)
\* C19: an attempt that finds the breaker Open with the cooldown not over
\* opens no file, ends the read with the circuit-open error without a retry,
\* and leaves the failure count and the last-failure time as they were.
C19_FailFast ==
    breaker.call.before.cooling =>
        /\ breaker.call.opens = breaker.call.before.opens
        /\ breaker.call.pc = "returned"
        /\ breaker.call.surfaced = "RuntimeError"
        /\ breaker.cb = breaker.call.before.cb

\* A read was rejected by a breaker that earlier failures had opened.
C19_Witness ==
    /\ breaker.call.before.cooling
    /\ breaker.call.pc = "returned"
    /\ breaker.call.first.state = "OPEN"
    /\ breaker.call.outcomes = <<"RuntimeError">>
    /\ breaker.now > breaker.cb.last_failure_time[1]

\* The read under way or returned failed with a transient I/O error each time
\* it opened the file, and began with a Closed breaker that had no failures.
KeepsFailing ==
    /\ breaker.call.pc = "returned"
    /\ breaker.call.first = NewBreaker
    /\ breaker.call.surfaced # "none"
    /\ \A k \in 1..Len(breaker.call.outcomes) :
          breaker.call.outcomes[k] \in {"PermissionError", "RuntimeError"}

\* C20: a read that keeps failing with a transient I/O error opens the file
\* max_retries + 1 times, sleeping between the attempts, and raises that I/O
\* error to its caller.
C20_SurfacesIoError ==
    KeepsFailing =>
        /\ breaker.call.opens = max_retries + 1
        /\ Len(breaker.call.slept) = max_retries
        /\ breaker.call.surfaced = "PermissionError"


(***************************************************************************)
(* The durable writes of a run, beside the guarded reads: the item image   *)
(* (Image.save in save_nft), the item metadata (open in save_nft_metadata) *)
(* and each checkpoint file (atomic_file_write in _resume_save_state).     *)
(***************************************************************************)
DurableKinds == {"image", "metadata", "checkpoint"}

\* What a write can do: succeed or fail with a transient I/O error.
WriteOutcomes == {"ok", "PermissionError"}

\* One durable write with the given outcome.  None of the three consults the
\* breaker, records into it, or sits under the retry wrapper: the file is
\* opened once whatever the breaker's state, and an error leaves at once.
DurableWrite(b, kind, outcome) ==
    [b EXCEPT !.wrote = [kind |-> kind,
                         cooling |-> ~can_execute(b.cb, b.now).ok,
                         opens |-> 1,
                         exc |-> IF outcome = "ok" THEN "none" ELSE outcome]]

SaveImage ==
    /\ breaker.call.pc \in {"idle", "returned"}
    /\ \E outcome \in WriteOutcomes : breaker' = DurableWrite(breaker, "image", outcome)
    /\ UNCHANGED <<cfg, gen, fs, runs, gen2, fs2, cache, disk, probe>>

SaveMetadata ==
    /\ breaker.call.pc \in {"idle", "returned"}
    /\ \E outcome \in WriteOutcomes : breaker' = DurableWrite(breaker, "metadata", outcome)
    /\ UNCHANGED <<cfg, gen, fs, runs, gen2, fs2, cache, disk, probe>>

SaveCheckpointFile ==
    /\ breaker.call.pc \in {"idle", "returned"}
    /\ \E outcome \in WriteOutcomes : breaker' = DurableWrite(breaker, "checkpoint", outcome)
    /\ UNCHANGED <<cfg, gen, fs, runs, gen2, fs2, cache, disk, probe>>

WritesNext ==
    \/ CallLoadJson \/ Attempt \/ Sleep \/ Tick
    \/ SaveImage \/ SaveMetadata \/ SaveCheckpointFile

SpecWrites == BreakerInit /\ [][WritesNext]_vars

\* C21: no durable write is performed while the breaker is Open with the
\* cooldown not over, and a durable write that failed with a transient I/O
\* error was tried again before the error was surfaced.
C21_WritesGuarded ==
    breaker.wrote.kind \in DurableKinds =>
        /\ ~breaker.wrote.cooling
        /\ breaker.wrote.exc # "none" => breaker.wrote.opens > 1


(***************************************************************************)
(* Failures of single items.                                               *)
(***************************************************************************)
\* The IDs of the items in the collection, and the IDs logged as failed.
CollectedIds == {gen.collection[k].id : k \in 1..Len(gen.collection)}

FailedIds == {gen.task_errors[k][1] : k \in 1..Len(gen.task_errors)}

\* The IDs the loop has gone through.
ProcessedIds == {gen.accepted[k].id : k \in 1..Len(gen.accepted)}

\* The IDs whose generate_nft was exhausted or whose save_nft raised.
ExhaustedIds ==
    {gen.accepted[k].id : k \in {j \in 1..Len(gen.accepted) : gen.accepted[j].status = "exhausted"}}

SaveFailedIds ==
    {gen.task_errors[k][1] : k \in {j \in 1..Len(gen.task_errors) : gen.task_errors[j][2] = "OSError"}}

\* C22: an ID whose generation is exhausted or whose save raises is logged as
\* failed and is not in the collection, and the loop goes on: every ID gone
\* through is either collected or failed, and when the run is done every
\* pending ID has been gone through.
C22_ItemFailureContained ==
    /\ gen.pc \in {"running", "done"}
    => /\ ExhaustedIds \cup SaveFailedIds = FailedIds
       /\ FailedIds \cap CollectedIds = {}
       /\ FailedIds \cup CollectedIds = ProcessedIds
       /\ gen.pc = "done" =>
              /\ gen.pending_ids = <<>>
              /\ ProcessedIds = Range(gen.planned)
              /\ Len(gen.accepted) = Len(gen.planned)

\* A run is done in which one ID was exhausted, the save of another raised,
\* and an ID processed after both is in the collection.
C22_Witness ==
    /\ gen.pc = "done"
    /\ gen.workers = 1
    /\ ExhaustedIds # {}
    /\ SaveFailedIds # {}
    /\ \E k \in 1..Len(gen.accepted) :
          /\ gen.accepted[k].id \in CollectedIds
          /\ \E j \in 1..(k - 1) : gen.accepted[j].id \in ExhaustedIds
          /\ \E j \in 1..(k - 1) : gen.accepted[j].id \in SaveFailedIds


(***************************************************************************)
(* Dispatch of the pending IDs.                                            *)
(***************************************************************************)
NoRepeats(seq) == \A j, k \in 1..Len(seq) : seq[j] = seq[k] => j = k

\* C23: in a run every pending ID is handed to generation once and no other
\* ID is; a failed task is not handed out again and the loop goes on past it;
\* the collection holds each ID at most once and no ID that was logged as
\* failed; when the run is done every pending ID has been handed out and
\* every task has been collected or logged.
C23_DispatchedOnce ==
    gen.pc \in {"running", "collecting", "done"} =>
        /\ NoRepeats(gen.dispatched)
        /\ Range(gen.dispatched) \subseteq Range(gen.planned)
        /\ NoRepeats([k \in 1..Len(gen.collection) |-> gen.collection[k].id])
        /\ CollectedIds \subseteq Range(gen.dispatched) \ FailedIds
        /\ NoRepeats([k \in 1..Len(gen.task_errors) |-> gen.task_errors[k][1]])
        /\ gen.pc = "done" =>
               /\ Range(gen.dispatched) = Range(gen.planned)
               /\ CollectedIds \cup FailedIds = Range(gen.planned)

\* A multi-worker run whose tasks all failed was collected to the end, and
\* after it a single-process run is done in which an ID failed and an ID
\* handed out after it was collected.
C23_Witness ==
    /\ runs.stopped_at = "done"
    /\ runs.stopped_workers = 2
    /\ gen.pc = "done"
    /\ gen.workers = 1
    /\ \E j, k \in 1..Len(gen.dispatched) :
          /\ j < k
          /\ gen.dispatched[j] \in FailedIds
          /\ gen.dispatched[k] \in CollectedIds


(***************************************************************************)
(* Uniqueness across workers.                                              *)
(***************************************************************************)
\* Two items of a multi-worker collection have the same digest or the same
\* (Body, Eyewear, Head) triple.
WorkersCollide ==
    /\ gen.workers = 2
    /\ \E j, k \in 1..Len(gen.collection) :
          /\ j < k
          /\ \/ gen.collection[j].hash = gen.collection[k].hash
             \/ /\ ~IsNone(get_bsh_combination(gen.collection[j].traits))
                /\ get_bsh_combination(gen.collection[j].traits)
                       = get_bsh_combination(gen.collection[k].traits)

\* No multi-worker collection holds such a pair.
NoWorkersCollide == ~WorkersCollide

\* C24: with several workers the items the workers accept are placed in the
\* final collection, where two of them can collide.  For one execution: a
\* completed multi-worker run without rules and with at least two pending IDs
\* has at least two items in its collection.
C24_WorkersPlaceItems ==
    /\ gen.pc = "done"
    /\ gen.workers = 2
    /\ cfg.rules = {}
    /\ Len(gen.planned) >= 2
    => Len(gen.collection) >= 2


(***************************************************************************)
(* What a rejected attempt leaves behind.                                  *)
(***************************************************************************)
\* C25: an attempt that is rejected leaves the keys and the counts of the
\* pattern counters, the triple set and the digest set as they were.
C25_RejectionFrame == gen.frame_changes = {}

\* The zero counters in the "patterns" object of tracker_state.json.
ZeroCountersOnDisk ==
    IF IsNone(fs.tracker_state) THEN {}
    ELSE {k \in DOMAIN fs.tracker_state[1].patterns : fs.tracker_state[1].patterns[k] = 0}

\* Nothing of a rejected candidate is persisted.
NoZeroCountersOnDisk == ZeroCountersOnDisk = {}


(***************************************************************************)
(* Single calls of the rule check, examined on their own: probe holds the  *)
(* arguments of the last call and what it returned.                        *)
(***************************************************************************)
\* The rest of the state while single calls are examined.
ProbeRest ==
    /\ cfg \in {WithSeed(Config({}, 1, <<>>, 1), None)}
    /\ gen = IdleGenerator
    /\ fs = EmptyFs
    /\ runs = NoRuns
    /\ gen2 = IdleGenerator
    /\ fs2 = EmptyFs
    /\ cache = <<>>
    /\ disk = <<>>
    /\ breaker = <<>>

\* Option names, one of which is part of another.
VA == <<"a">>
VB == <<"b">>
VAB == <<"a", "b">>
VAStar == <<"a", "*">>

ProbeTypes == {TBody, THead}

ProbeNames == {VA, VB, VAB}

\* The values of a rule side: lists, and single strings among which the
\* wildcard, a string that holds an option name, and one that holds "*".
ProbeValues ==
    {ListValue({VA}), ListValue({VAB}), ListValue({Star}),
     StrValue(VA), StrValue(VAB), StrValue(VAStar), StrValue(Star)}

ProbeRules ==
    {[if_condition |-> [trait_type |-> it, value |-> iv],
      then_condition |-> [trait_type |-> tt, excluded_values |-> ev]] :
        it \in ProbeTypes, iv \in ProbeValues, tt \in ProbeTypes, ev \in ProbeValues}

\* The rule sets examined: every single rule, and every pair of rules over
\* the lists [a] and [*].
ProbeRuleSets ==
    {{r} : r \in ProbeRules} \cup
    {{Rule(it, {iv}, tt, {ev}), Rule(it2, {iv2}, tt2, {ev2})} :
        it \in ProbeTypes, iv \in {VA, Star}, tt \in ProbeTypes, ev \in {VA, Star},
        it2 \in ProbeTypes, iv2 \in {VA, Star}, tt2 \in ProbeTypes, ev2 \in {VA, Star}}

\* The one-element list that holds the string of a single-string value.
AsList(values) == IF values.ty = "str" THEN ListValue({values.str}) ELSE values

AsLists(rules) ==
    {[if_condition |-> [trait_type |-> r.if_condition.trait_type,
                        value |-> AsList(r.if_condition.value)],
      then_condition |-> [trait_type |-> r.then_condition.trait_type,
                          excluded_values |-> AsList(r.then_condition.excluded_values)]] :
        r \in rules}

\* is_valid_trait({I: a}, T, b) under the rules, the same call with the two
\* values in the opposite order, and the same call under the rules with
\* every single string replaced by its one-element list.
Checked(rules, I, a, T, b) ==
    [op |-> "is_valid_trait", rules |-> rules, I |-> I, a |-> a, T |-> T, b |-> b,
     forward |-> is_valid_trait([rules |-> rules], <<<<I, a>>>>, T, b),
     backward |-> is_valid_trait([rules |-> rules], <<<<T, b>>>>, I, a),
     as_lists |-> is_valid_trait([rules |-> AsLists(rules)], <<<<I, a>>>>, T, b)]

\* The arguments of a call not made yet.
RulesInit ==
    /\ ProbeRest
    /\ probe \in {[op |-> "call", rules |-> rules, I |-> I, a |-> a, T |-> T, b |-> b] :
                    rules \in ProbeRuleSets, I \in ProbeTypes, T \in ProbeTypes,
                    a \in ProbeNames, b \in ProbeNames}

CheckTrait ==
    /\ probe.op = "call"
    /\ probe' = Checked(probe.rules, probe.I, probe.a, probe.T, probe.b)
    /\ UNCHANGED <<cfg, gen, fs, runs, gen2, fs2, cache, disk, breaker>>

RulesNext == CheckTrait

SpecRules == RulesInit /\ [][RulesNext]_vars

\* A side of a rule that is a single string other than "*".
SingleString(values) == values.ty = "str" /\ values.str # Star

\* C26: under a rule whose sides are lists, the wildcard, or single strings,
\* is_valid_trait returns what it returns with each single string replaced
\* by the one-element list holding it (a single string matches by equality).
C26_SingleStringExact ==
    probe.op = "is_valid_trait" => probe.forward = probe.as_lists

\* C27: is_valid_trait({I: a}, T, b) = is_valid_trait({T: b}, I, a).
C27_OrderIndependent ==
    probe.op = "is_valid_trait" => probe.forward = probe.backward

\* A pair of values of two different trait types that a rule rejects.
C27_Witness ==
    /\ probe.op = "is_valid_trait"
    /\ probe.I # probe.T
    /\ ~probe.forward
    /\ ~probe.backward
    /\ \E r \in probe.rules :
          r.if_condition.trait_type = probe.T /\ r.then_condition.trait_type = probe.I


C28_Exhausted ==
    /\ gen.call.status = "exhausted"
    /\ gen.call.attempts = MAX_ATTEMPTS


(***************************************************************************)
(* The generation order under the priority lists the loader accepts.       *)
(* NFTConfiguration does not examine priority_traits, so a list may repeat *)
(* a trait type or name one the catalog does not have.                     *)
(***************************************************************************)
MaxPriority == 3

TBogus == <<"B", "o", "g", "u", "s">>

PriorityNames == Range(trait_order) \cup {TBogus}

PriorityLists ==
    UNION {[1..n -> PriorityNames] : n \in 0..MaxPriority}

\* for trait_type in generation_order: self.traits[trait_type] raises KeyError
\* at the first trait type the catalog does not have.
RECURSIVE Visits(_, _)
Visits(order, i) ==
    IF i > Len(order)
    THEN [visited |-> <<>>, raised |-> "none"]
    ELSE IF order[i] \notin DOMAIN traits
         THEN [visited |-> <<>>, raised |-> "KeyError"]
         ELSE [Visits(order, i + 1) EXCEPT !.visited = <<order[i]>> \o @]

Ordered(priority_traits, order) ==
    [op |-> "generation_order", priority_traits |-> priority_traits,
     order |-> order, walk |-> Visits(order, 1)]

OrderInit ==
    /\ ProbeRest
    /\ probe \in {[op |-> "order", priority_traits |-> p] : p \in PriorityLists}

ComputeOrder ==
    /\ probe.op = "order"
    /\ probe' = Ordered(probe.priority_traits,
                        generation_order([priority_traits |-> probe.priority_traits]))
    /\ UNCHANGED <<cfg, gen, fs, runs, gen2, fs2, cache, disk, breaker>>

OrderNext == ComputeOrder

SpecOrder == OrderInit /\ [][OrderNext]_vars

Occurrences(order, t) == Cardinality({i \in 1..Len(order) : order[i] = t})

\* The priority traits the order starts with.
FirstTraits(priority_traits) ==
    IF Len(priority_traits) > 0 THEN priority_traits ELSE SubSeq(trait_order, 1, 3)

\* The order is the priority traits followed by the other catalog types in
\* catalog order.
OrderShape ==
    probe.op = "generation_order" =>
        probe.order = FirstTraits(probe.priority_traits)
                      \o SelectSeq(trait_order,
                                   LAMBDA t : t \notin Range(FirstTraits(probe.priority_traits)))

\* C29: for every priority list the loader accepts, the generation order is
\* the priority traits followed by the other catalog types in catalog order,
\* and an attempt visits every catalog trait type exactly once and no other.
C29_OrderVisitsOnce ==
    /\ OrderShape
    /\ probe.op = "generation_order" =>
           /\ \A t \in Range(trait_order) : Occurrences(probe.order, t) = 1
           /\ Range(probe.order) \subseteq Range(trait_order)
           /\ probe.walk.raised = "none"
           /\ probe.walk.visited = probe.order

\* A priority list of distinct catalog types.
DistinctCatalogTypes(priority_traits) ==
    /\ Range(priority_traits) \subseteq Range(trait_order)
    /\ \A i, j \in 1..Len(priority_traits) : priority_traits[i] = priority_traits[j] => i = j

\* Under a priority list of distinct catalog types every catalog type is
\* visited exactly once.
OrderOfDistinct ==
    (probe.op = "generation_order" /\ DistinctCatalogTypes(probe.priority_traits)) =>
        /\ \A t \in Range(trait_order) : Occurrences(probe.order, t) = 1
        /\ probe.walk.visited = probe.order


(***************************************************************************)
(* Include overrides: --include-override TRAIT=PROB, PROB in 0..100.       *)
(***************************************************************************)
MaxPercent == 100

\* self.traits[tt]["rarity"] = prob for the overridden trait types the
\* catalog has; include_overrides is a sequence of <<type, prob>>.
Overridden(tr, include_overrides) ==
    [tt \in DOMAIN tr |->
        IF tt \in Keys(include_overrides)
        THEN [tr[tt] EXCEPT !.rarity = Get(include_overrides, tt)]
        ELSE tr[tt]]

\* The overrides of a run: none, or one trait type with a percentage.
OverrideChoices ==
    {<<>>} \cup {<<<<tt, p>>>> : tt \in {TEyewear, TFx}, p \in 0..MaxPercent}

\* should_include_trait of a generator constructed with the overrides: the
\* threshold it compares the draw with, and its answer.
Included(include_overrides, trait_type, s) ==
    [op |-> "should_include_trait", include_overrides |-> include_overrides,
     trait_type |-> trait_type, rng |-> s,
     probability |-> IncludeProbability(Overridden(traits, include_overrides)[trait_type].rarity),
     included |-> IncludeDraw(Overridden(traits, include_overrides), s, trait_type).value]

IncludeInit ==
    /\ ProbeRest
    /\ probe \in {[op |-> "include", include_overrides |-> o, trait_type |-> tt, rng |-> s] :
                      o \in OverrideChoices, tt \in {TEyewear, TFx},
                      s \in {SeedState(n) : n \in 0..(NumSeeds - 1)}}

IncludeTrait ==
    /\ probe.op = "include"
    /\ probe' = Included(probe.include_overrides, probe.trait_type, probe.rng)
    /\ UNCHANGED <<cfg, gen, fs, runs, gen2, fs2, cache, disk, breaker>>

IncludeNext == IncludeTrait

SpecInclude == IncludeInit /\ [][IncludeNext]_vars

\* The percentage the trait type is to be included with: the override given
\* for it, else 20 times its configured weight.
IntendedPercent(include_overrides, trait_type) ==
    IF trait_type \in Keys(include_overrides)
    THEN Get(include_overrides, trait_type)
    ELSE traits[trait_type].rarity * 20

\* Without an override for it, a trait type of weight w is included when the
\* draw in [0, 100) is below 20 * w.
ConfiguredWeightPercent ==
    (probe.op = "should_include_trait" /\ probe.trait_type \notin Keys(probe.include_overrides)) =>
        /\ probe.probability = traits[probe.trait_type].rarity * 20
        /\ probe.included = (RngOut(probe.rng) * 100 < probe.probability * 256)

\* C30: a trait type overridden with p is included when the draw in [0, 100)
\* is below p, as one of configured weight w is when the draw is below 20 * w.
C30_OverridePercent ==
    probe.op = "should_include_trait" =>
        /\ probe.probability = IntendedPercent(probe.include_overrides, probe.trait_type)
        /\ probe.included =
               (RngOut(probe.rng) * 100
                   < IntendedPercent(probe.include_overrides, probe.trait_type) * 256)

\* An override of 5 to 99 percent under which the trait type is included at a
\* draw that is not below the percentage.
OverrideAlwaysIncludes ==
    /\ probe.op = "should_include_trait"
    /\ probe.trait_type \in Keys(probe.include_overrides)
    /\ Get(probe.include_overrides, probe.trait_type) \in 5..99
    /\ RngOut(probe.rng) * 100 >= Get(probe.include_overrides, probe.trait_type) * 256
    /\ probe.included


(***************************************************************************)
(* Completion of a cache miss.  load_image_cached runs its steps one after *)
(* the other without waiting for anything, so a miss under way takes its   *)
(* next step whenever one changes the state.                               *)
(***************************************************************************)
MissStep == EvictForCount \/ CountLoopEnds \/ EvictForMemory \/ InsertLoaded

SpecCacheLive == CacheInit /\ [][CacheNext]_vars /\ WF_vars(MissStep)

MissUnderWay == cache.pc \in {"count", "memory"}

\* The miss has returned: the image is cached under its path.
MissCompleted ==
    /\ cache.pc = "idle"
    /\ cache.safe_path \in CachedPaths(cache)

\* C31: for every cache_size >= 0 and every memory budget, a miss leaves both
\* eviction loops after finitely many evictions, inserts the image and returns.
C31_MissCompletes == MissUnderWay ~> MissCompleted

\* With a cache_size of at least 1 a miss completes.
MissCompletesWithRoom ==
    (MissUnderWay /\ cache.cache_size >= 1) ~> MissCompleted

\* A miss in the count loop of a cache of size 0: the cache is empty and the
\* loop condition holds.
CountLoopSpins ==
    /\ cache.pc = "count"
    /\ cache.cache_size = 0
    /\ Len(cache._image_cache) = 0
    /\ CountLoopRuns(cache)
    /\ _evict_lru_item(cache) = cache


(***************************************************************************)
(* Composition in save_nft.  A layer is the trait file of a selected       *)
(* trait: a PNG of some size, or a GIF with its frame count, frame size    *)
(* and the duration and loop entries of its info dictionary, which may be  *)
(* missing.                                                                *)
(***************************************************************************)
DEFAULT_GIF_DURATION_MS == 120
DEFAULT_GIF_LOOP == 0

MaxLayers == 2

\* config.image_size, and a size that differs from it.
CanvasSize == <<2, 2>>
OtherSize == <<2, 3>>

PngLayers == {[kind |-> "png", size |-> sz, n_frames |-> 1, duration |-> None, loop |-> None] :
                 sz \in {CanvasSize, OtherSize}}

GifLayers == {[kind |-> "gif", size |-> sz, n_frames |-> n, duration |-> du, loop |-> lo] :
                 sz \in {CanvasSize, OtherSize}, n \in {1, 2, 3},
                 du \in {None, Some(DEFAULT_GIF_DURATION_MS), Some(80)},
                 lo \in {None, Some(1)}}

\* The layers of an item, in trait order.
LayerLists == UNION {[1..n -> PngLayers \cup GifLayers] : n \in 1..MaxLayers}

\* info.get(key, default)
InfoGet(x, default) == IF IsNone(x) THEN default ELSE x[1]

\* The size test without effect: the variant the composition property is
\* compared against.
SizeDiffers_Never(size, expected) == FALSE

\* layer_image.size != base_size
SizeDiffers(size, expected) == size # expected

\* compose_static_nft: the first layer of another size raises ValueError.
compose_static_nft(layers, canvas) ==
    IF \E i \in 1..Len(layers) : SizeDiffers(layers[i].size, canvas)
    THEN "ValueError" ELSE "none"

\* The validation loop of compose_animated_nft over the GIF layers: the
\* first one gives frame count, duration and loop, the others are compared
\* with it.
GifDisagrees(first, g) ==
    \/ g.n_frames # first.n_frames
    \/ InfoGet(g.duration, DEFAULT_GIF_DURATION_MS)
           # InfoGet(first.duration, DEFAULT_GIF_DURATION_MS)
    \/ InfoGet(g.loop, DEFAULT_GIF_LOOP) # InfoGet(first.loop, DEFAULT_GIF_LOOP)

GifsValid(gifs) ==
    /\ \A i \in 1..Len(gifs) : gifs[i].n_frames > 1
    /\ \A i \in 2..Len(gifs) : ~GifDisagrees(gifs[1], gifs[i])

\* compose_animated_nft: validation, then the frames with the size test of
\* every static layer and every GIF frame.
compose_animated_nft(gifs, statics, canvas) ==
    IF ~GifsValid(gifs) THEN "ValueError"
    ELSE IF \/ \E i \in 1..Len(statics) : SizeDiffers(statics[i].size, canvas)
            \/ \E i \in 1..Len(gifs) : SizeDiffers(gifs[i].size, canvas)
         THEN "ValueError" ELSE "none"

IsGif(layer) == layer.kind = "gif"
IsPng(layer) == layer.kind = "png"

\* The composition of save_nft: animated when a selected trait has a GIF.
Composed(layers, canvas) ==
    IF \E i \in 1..Len(layers) : IsGif(layers[i])
    THEN [ext |-> "gif",
          raised |-> compose_animated_nft(SelectSeq(layers, IsGif),
                                          SelectSeq(layers, IsPng), canvas)]
    ELSE [ext |-> SaveExt(img_format), raised |-> compose_static_nft(layers, canvas)]

\* save_nft from the composition on: the image is saved after the
\* composition returned, the metadata after the image; an exception of the
\* composition is logged and raised again.
SavedComposed(files, nft_id, c) ==
    IF c.raised = "none"
    THEN [raised |-> "none",
          files |-> files \cup {File(image_dir, nft_id, c.ext),
                                File(metadata_dir, nft_id, "json")}]
    ELSE [raised |-> c.raised, files |-> files]

save_nft_layers(files, nft_id, layers, canvas) ==
    SavedComposed(files, nft_id, Composed(layers, canvas))

\* The output files present before the call: none, or those of another item.
FilesBefore == {{}, {File(image_dir, 1, SaveExt(img_format)), File(metadata_dir, 1, "json")}}

ComposeInit ==
    /\ ProbeRest
    /\ probe \in {[op |-> "save", nft_id |-> 2, layers |-> l, files |-> f] :
                      l \in LayerLists, f \in FilesBefore}

SaveNft ==
    /\ probe.op = "save"
    /\ probe' = [op |-> "save_nft", nft_id |-> probe.nft_id, layers |-> probe.layers,
                 before |-> probe.files,
                 result |-> save_nft_layers(probe.files, probe.nft_id, probe.layers,
                                            CanvasSize)]
    /\ UNCHANGED <<cfg, gen, fs, runs, gen2, fs2, cache, disk, breaker>>

ComposeNext == SaveNft

SpecCompose == ComposeInit /\ [][ComposeNext]_vars

\* A layer whose decoded size is not the canvas size.
SizeMismatch(layers) == \E i \in 1..Len(layers) : layers[i].size # CanvasSize

\* Two animated layers of different frame count, frame duration or loop
\* count, a missing entry counting as its default.
AnimatedDisagree(layers) ==
    \E i, j \in 1..Len(layers) :
        /\ IsGif(layers[i]) /\ IsGif(layers[j])
        /\ GifDisagrees(layers[i], layers[j])

FilesOf(files, nft_id) == {f \in files : f.id = nft_id}

ComposedItemWritten ==
    /\ probe.op = "save_nft"
    /\ probe.result.raised = "none"
    /\ FilesOf(probe.result.files, probe.nft_id) # {}


(***************************************************************************)
(* Recovery of the breaker from HALF_OPEN.                                 *)
(***************************************************************************)
SuccessRecorded == breaker'.records = breaker.records + 1 /\ breaker'.streak = 0
FailureRecorded == breaker'.records = breaker.records + 1 /\ breaker'.streak = breaker.streak + 1

\* A step taken while the breaker is HALF_OPEN.
HalfOpenStep ==
    breaker.cb.state = "HALF_OPEN" =>
        /\ FailureRecorded => breaker'.cb.state = "OPEN"
        /\ SuccessRecorded =>
               IF breaker.probes + 1 = 2
               THEN breaker'.cb.state = "CLOSED" /\ breaker'.cb.failure_count = 0
               ELSE breaker'.cb.state = "HALF_OPEN"
        /\ breaker'.cb.state = "CLOSED" => SuccessRecorded /\ breaker.probes = 1
        /\ breaker.probes \in {0, 1}

\* C33: in HALF_OPEN the breaker closes at the second success recorded since
\* it entered HALF_OPEN and not before, whatever was recorded earlier; closing
\* sets the failure count to 0; a failure recorded in HALF_OPEN opens it.
C33_HalfOpenRecovery == [][HalfOpenStep]_vars

\* The breaker closed from HALF_OPEN, which it had entered with a success
\* recorded while it was Open.
C33_Witness ==
    /\ breaker.cb.state = "CLOSED"
    /\ <<"HALF_OPEN", "CLOSED">> \in breaker.edges
    /\ breaker.discarded
    /\ breaker.cb.failure_count = 0


(***************************************************************************)
(* The cooldown of the breaker under guarded file operations.              *)
(***************************************************************************)
\* recovery_timeout has elapsed since the last recorded failure.
CooledDown(b) ==
    \/ IsNone(b.cb.last_failure_time)
    \/ b.now - b.cb.last_failure_time[1] >= recovery_timeout

\* The step is an attempt of a guarded file operation.
AttemptMade == Len(breaker'.call.outcomes) = Len(breaker.call.outcomes) + 1

\* An attempt that finds the breaker OPEN: after the cooldown it moves the
\* breaker to HALF_OPEN and the file is opened; before, it is refused and
\* leaves the breaker, the time of the last failure included, as it was.
OpenAttemptStep ==
    (breaker.cb.state = "OPEN" /\ AttemptMade) =>
        IF CooledDown(breaker)
        THEN /\ breaker'.resets = breaker.resets + 1
             /\ breaker'.call.opens = breaker.call.opens + 1
             /\ breaker'.call.outcomes[Len(breaker'.call.outcomes)] # "RuntimeError"
        ELSE /\ breaker'.cb = breaker.cb
             /\ breaker'.call.opens = breaker.call.opens
             /\ breaker'.call.outcomes[Len(breaker'.call.outcomes)] = "RuntimeError"

\* C34: whenever the breaker is OPEN and recovery_timeout has elapsed since
\* the last recorded failure, the next operation moves it to HALF_OPEN and is
\* admitted; an operation refused while it is OPEN does not change the time
\* the cooldown is counted from.
C34_CooldownEnds == [][OpenAttemptStep]_vars

\* A second call that began with the breaker OPEN and whose attempt, made
\* after the cooldown, moved it to HALF_OPEN and opened the file.
C34_Witness ==
    /\ breaker.calls = 2
    /\ breaker.resets = 1
    /\ breaker.call.opens = 1
    /\ breaker.call.before.cb.state = "OPEN"
    /\ breaker.call.first.state = "OPEN"


(***************************************************************************)
(* Uniqueness within the tasks of one worker process.                      *)
(***************************************************************************)
\* Two collected items with the same digest or the same triple.
Collide(x, y) ==
    \/ x.hash = y.hash
    \/ /\ ~IsNone(get_bsh_combination(x.traits))
       /\ get_bsh_combination(x.traits) = get_bsh_combination(y.traits)

\* The tasks that failed before a worker ran them.
UnrunTasks == {k \in 1..Len(gen.task_errors) : gen.task_errors[k][2] = "TypeError"}

NoWorkerGenerates == gen.workers = 2 => Len(gen.collection) = 0


(***************************************************************************)
(* Whose digests and triples the uniqueness state holds.                   *)
(***************************************************************************)
CollectionHashes == {gen.collection[k].hash : k \in 1..Len(gen.collection)}

CollectionTriples ==
    {get_bsh_combination(gen.collection[k].traits)[1] :
        k \in {j \in 1..Len(gen.collection) :
                  ~IsNone(get_bsh_combination(gen.collection[j].traits))}}

\* The digests added to the seen-digest set since the generator was
\* constructed.
AddedHashes == gen.generated_hashes \ gen.loaded_hashes

\* C36: in a single-process run every digest added to the seen-digest set
\* and every triple of the tracker belongs to an item of the collection; an
\* item whose save failed has left neither.
C36_StateOfCollectedOnly ==
    (gen.workers = 1 /\ gen.pc \in {"running", "done"} /\ ~gen.resumed) =>
        /\ AddedHashes \subseteq CollectionHashes
        /\ gen.bsh_combinations \subseteq CollectionTriples

\* The same of the digests alone.
AddedHashesCollected ==
    (gen.workers = 1 /\ gen.pc \in {"running", "done"} /\ ~gen.resumed) =>
        AddedHashes \subseteq CollectionHashes

\* An item whose save failed and whose digest is in the seen-digest set.
FailedSaveKeptDigest ==
    /\ gen.workers = 1
    /\ \E k \in 1..Len(gen.task_errors) : gen.task_errors[k][2] = "OSError"
    /\ AddedHashes \ CollectionHashes # {}


(***************************************************************************)
(* The process stopping inside _resume_save_state.  Each file is replaced  *)
(* atomically, so the files on disk are those of the writes that were      *)
(* completed when the process stopped.                                     *)
(***************************************************************************)
\* The number of file writes of _resume_save_state completed at a stop.
CrashPoints == 0..3

\* The checkpoint files after the first n writes of _resume_save_state.
SavedUpTo(g, d, n) ==
    IF n = 0 THEN d
    ELSE IF n = 1 THEN SaveSeen(g, d)
    ELSE IF n = 2 THEN SaveTracker(g, SaveSeen(g, d))
    ELSE _resume_save_state(g, d)

NoCrash == [op |-> "none"]

CrashInit ==
    /\ cfg \in Configs
    /\ gen = IdleGenerator
    /\ fs = EmptyFs
    /\ runs = NoRuns
    /\ gen2 = IdleGenerator
    /\ fs2 = EmptyFs
    /\ cache = <<>>
    /\ disk = <<>>
    /\ breaker = <<>>
    /\ probe = NoCrash

\* The process stops inside the save at the end of the collection, after n
\* of its writes; probe keeps the files from before the save and those the
\* whole save would have left.
CrashInSave ==
    /\ gen.pc = "running"
    /\ Len(gen.pending_ids) = 0
    /\ \E n \in CrashPoints :
          /\ fs' = SavedUpTo(gen, fs, n)
          /\ probe' = [op |-> "crashed", at |-> n, before |-> fs,
                       whole |-> _resume_save_state(gen, fs)]
    /\ gen' = IdleGenerator
    /\ UNCHANGED <<cfg, runs, gen2, fs2, cache, disk, breaker>>

CrashNext ==
    Construct \/ StartCollection \/ ProcessItem \/ FinishCollection \/ CrashInSave

SpecCrash == CrashInit /\ [][CrashNext]_vars

\* The process has just stopped inside a save.
JustCrashed == probe.op = "crashed" /\ gen.pc = "idle"

\* The digest file and the tracker file are both of the checkpoint d.
BothOf(d) ==
    /\ fs.seen_hashes = d.seen_hashes
    /\ fs.tracker_state = d.tracker_state

\* C37: wherever the process stops inside _resume_save_state, the
\* seen_hashes.json and tracker_state.json on disk are both those of the
\* previous checkpoint or both those of the new one.
C37_CheckpointConsistent ==
    JustCrashed => (BothOf(probe.before) \/ BothOf(probe.whole))

\* A stop after the digest file was replaced and before the tracker file
\* was: the digest file is the new one, the tracker file the previous one,
\* and the new tracker file would have differed.
TornCheckpoint ==
    /\ JustCrashed
    /\ probe.at = 1
    /\ fs.seen_hashes = probe.whole.seen_hashes
    /\ fs.tracker_state = probe.before.tracker_state
    /\ probe.whole.tracker_state # probe.before.tracker_state
    /\ ~IsNone(probe.before.tracker_state)


(***************************************************************************)
(* What the constructor restores of the accepted-item state.               *)
(***************************************************************************)
\* The digest set is the one of seen_hashes.json.
SeenRestored ==
    /\ Damage(fs, "seen_hashes.json") = "none"
    /\ gen.generated_hashes = Range(fs.seen_hashes[1])

\* The triple set and the pattern counters are those of tracker_state.json.
TrackerRestored ==
    /\ Damage(fs, "tracker_state.json") = "none"
    /\ gen.bsh_combinations = {x.v : x \in Range(fs.tracker_state[1].bsh)}
    /\ gen.trait_patterns = patterns_loaded(fs.tracker_state[1].patterns)

SeenFresh == gen.generated_hashes = {}

TrackerFresh == gen.bsh_combinations = {} /\ gen.trait_patterns = <<>>

\* The constructor has returned on a directory that holds both files.
StartedOnBothFiles ==
    /\ gen.pc = "ready"
    /\ ~IsNone(fs.seen_hashes)
    /\ ~IsNone(fs.tracker_state)

\* C38: after _resume_load_existing on a directory holding seen_hashes.json
\* and tracker_state.json, intact or corrupt, the digest set, the triple set
\* and the pattern counters are all restored from the files or all fresh.
C38_RestoreAllOrNothing ==
    StartedOnBothFiles =>
        \/ SeenRestored /\ TrackerRestored
        \/ SeenFresh /\ TrackerFresh

\* An intact seen_hashes.json beside a tracker_state.json that is not JSON:
\* the digests are restored and the tracker is fresh.
HalfRestored ==
    /\ StartedOnBothFiles
    /\ Damage(fs, "tracker_state.json") = "corrupt"
    /\ SeenRestored
    /\ gen.generated_hashes # {}
    /\ TrackerFresh

\* With both files intact everything is restored, and with a corrupt
\* seen_hashes.json nothing is.
RestoreOfIntactOrSeenCorrupt ==
    StartedOnBothFiles =>
        /\ (Damage(fs, "seen_hashes.json") = "none" /\ Damage(fs, "tracker_state.json") = "none")
               => (SeenRestored /\ TrackerRestored)
        /\ Damage(fs, "seen_hashes.json") # "none" => (SeenFresh /\ TrackerFresh)


(***************************************************************************)
(* The failure counters of a run.                                          *)
(***************************************************************************)
\* The step is one generate_nft call of the single-process loop.
GenerateCalled ==
    /\ gen.pc = "running"
    /\ gen'.pc = "running"
    /\ Len(gen'.dispatched) = Len(gen.dispatched) + 1

\* The failed attempts of the call just made.
FailedAttempts(call) == call.attempts - (IF call.status = "accepted" THEN 1 ELSE 0)

TraitValidationAdded == gen'.failed_attempts.trait_validation - gen.failed_attempts.trait_validation
UniquenessAdded == gen'.failed_attempts.uniqueness - gen.failed_attempts.uniqueness

\* A generate_nft call adds one to exactly one counter for each of its
\* failed attempts: to trait_validation for those a trait type aborted, to
\* uniqueness for the others.
CountersStep ==
    GenerateCalled =>
        /\ TraitValidationAdded = gen'.call.aborted
        /\ UniquenessAdded = FailedAttempts(gen'.call) - gen'.call.aborted
        /\ TraitValidationAdded + UniquenessAdded = FailedAttempts(gen'.call)

\* C39: every failed attempt of generate_nft increments exactly one of the
\* two counters, so that over a call trait_validation + uniqueness grows by
\* the number of its failed attempts.
C39_CountersPartition == [][CountersStep]_vars

\* Over a call trait_validation grows by the attempts a trait type aborted.
TraitValidationCounted == [][GenerateCalled => TraitValidationAdded = gen'.call.aborted]_vars

\* A call whose only failed attempt a trait type aborted, with both
\* counters at 1.
CountedTwice ==
    /\ gen.call.status = "accepted"
    /\ gen.call.attempts = 2
    /\ gen.call.aborted = 1
    /\ Len(gen.dispatched) = 1
    /\ gen.failed_attempts.trait_validation = 1
    /\ gen.failed_attempts.uniqueness = 1

====
